---- MODULE Spec2Model ----
(***************************************************************************)
(* Model of the Political-Party-Elites crawlers and of the hand-over of    *)
(* their output directory to the parsers.                                  *)
(*                                                                         *)
(*   Spec        main_scraping.py: main() -> PirateForumScraper.run():     *)
(*               login handshake, links file, explicit-list crawl loop,    *)
(*               summary; then parsing_pirate_posts.py lists the output    *)
(*               directory (process_all_xml_files).                        *)
(*   SpecHelios  parsing_pirate_votes.py: HeliosScraper.run(): enumerated  *)
(*               pagination over base URLs.                                *)
(*                                                                         *)
(* The remote servers and the file system are the environment: every       *)
(* response is a nondeterministic choice from a small set.                 *)
(***************************************************************************)
EXTENDS Integers, Sequences, FiniteSets, TLC

VARIABLES
    pc,               \* position of main()/run() (both programs)
    lstate,           \* login handshake state (spec 4.1 names)
    loginReqs,        \* requests login() has issued, each with the handshake state it was issued in
    lastRequest,      \* the last HTTP request put on the wire
    login_form,       \* login(): the located form (its hidden inputs) or NoForm
    test_response,    \* login(): markup of the protected topic, or NoPage
    main_response,    \* login(): markup of the site root, or NoPage
    loginResult,      \* value returned by login(): "none" | "True" | "False"
    urls,             \* run(): list returned by read_links_from_file
    i,                \* run(): 1-based index of the current target / base URL
    response,         \* scrape_url(): the response of the last target fetch
    page_data,        \* run(): result of the last scrape_url call
    scraped_files,    \* run(): list of (filepath, page_data)
    successful_scrapes,
    skipped_urls,
    files,            \* the output directory: file name -> content
    summary,          \* the summary handed to save_summary_xml, or NoSummary
    sinceFetch,       \* "none" | "fetched" | "slept": what followed the last target fetch
    fetchLog,         \* the controller's fetches, in order (forum: the target's index;
                      \* Helios: base URL index, loop page number, URL, whether a roll page came back)
    interrupted,      \* a KeyboardInterrupt has been delivered
    parser_pc,        \* parsing_pirate_posts.py main(): "idle" | "done"
    parsed,           \* files the parser has run the extractor on
    page_num,         \* HeliosScraper.run(): page number of the inner loop
    realPages,        \* environment: pages the election server holds for the current base URL
    warned,           \* read_links_from_file: lines reported as not looking like a forum URL
    report,           \* run(): the closing report printed after the loop, NoReport before
    call,             \* a function called on its own: its name and its argument
    returned,         \* what that call returned or raised, NoReturn before it has ended
    parser,           \* a ForumXMLParser instance: its attributes
    history           \* the extraction calls made on that instance, with their results

loginVars == <<lstate, loginReqs, lastRequest, login_form, test_response, main_response, loginResult>>
crawlVars == <<urls, i, response, page_data, scraped_files, files, summary, sinceFetch, fetchLog>>
forumVars == <<successful_scrapes, skipped_urls, interrupted, parser_pc, parsed, warned, report>>
heliosVars == <<page_num, realPages>>
unitVars == <<call, returned>>
parserVars == <<parser, history>>
vars == <<pc, loginVars, crawlVars, forumVars, heliosVars, unitVars, parserVars>>

-----------------------------------------------------------------------------
(* Bounds of the model *)

MaxHidden == 2      \* hidden inputs of a served login form
MaxLines == 2       \* lines of links.txt / links_HELIOS.txt
MaxRealPages == 3   \* pages of an election roll that is not longer than the page limit

(* Program constants *)

MinPageLength == 100          \* scrape_url: "Too short to be a real page"
PaginationThreshold == 500    \* HeliosScraper.run: "small pages = no data"
MaxPageNum == 25              \* HeliosScraper.run: range(1, 26)
HTTP_OK == 200

-----------------------------------------------------------------------------
(* Python values *)

None == [kind |-> "None"]
NoForm == [kind |-> "NoForm"]
NoPage == [kind |-> "NoPage"]
NoRequest == [kind |-> "NoRequest"]
NoSummary == [kind |-> "NoSummary"]
NoResponse == [kind |-> "NoResponse"]
\* requests.exceptions.RequestException raised by a request (network error,
\* timeout, or raise_for_status on a 4xx/5xx answer)
RequestException == [kind |-> "RequestException"]
\* OSError raised by open() or write()
OSError == [kind |-> "OSError"]
Ok == [kind |-> "ok"]
\* an exception of class cls leaving a function
Raised(cls) == [kind |-> "raised", cls |-> cls]
NoReport == [kind |-> "NoReport"]
NoCall == [kind |-> "NoCall"]
NoReturn == [kind |-> "NoReturn"]
\* parsing_pirate_posts.py lines 14-16: the attributes __init__ sets
ForumXMLParser == [k \in {"input_folder", "output_folder"} |->
                     IF k = "input_folder" THEN "data" ELSE "data/xlsx"]

RECURSIVE SeqsUpTo(_, _)
SeqsUpTo(S, n) ==
    IF n = 0 THEN {<<>>}
    ELSE LET shorter == SeqsUpTo(S, n - 1)
         IN  shorter \cup {Append(s, x) : s \in {t \in shorter : Len(t) = n - 1}, x \in S}

\* dict.update: keys of h replace those of d
DictUpdate(d, h) ==
    [k \in DOMAIN d \cup DOMAIN h |-> IF k \in DOMAIN h THEN h[k] ELSE d[k]]

EmptyDict == [k \in {} |-> ""]

-----------------------------------------------------------------------------
(* Authenticator: PirateForumScraper.login *)

username == "Filip"
password == "secret"

\* A hidden <input>: its name attribute ("None" when absent) and its value
\* attribute ("Absent" when the tag carries none).
HiddenNames == {"None", "username", "execution"}
HiddenValues == {"Absent", "v1", "v2"}
HiddenInputs == [name : HiddenNames, value : HiddenValues]
Forms == {[kind |-> "form", hidden |-> h] : h \in SeqsUpTo(HiddenInputs, MaxHidden)}

\* input_tag.get('value', '')
InputValue(inp) == IF inp.value = "Absent" THEN "" ELSE inp.value

\* for input_tag in login_form.find_all('input', type='hidden'): ...
RECURSIVE hidden_fields(_)
hidden_fields(hidden) ==
    IF hidden = <<>> THEN EmptyDict
    ELSE LET n == Len(hidden)
             inp == hidden[n]
             before == hidden_fields(SubSeq(hidden, 1, n - 1))
         IN  IF inp.name # "None"
             THEN DictUpdate(before, (inp.name :> InputValue(inp)))
             ELSE before

\* login_data = {'username': ..., 'password': ...}; login_data.update(hidden_fields)
login_data(form) ==
    DictUpdate(("username" :> username) @@ ("password" :> password),
               hidden_fields(form.hidden))

\* Markers the verification looks for, in both locales (the Czech phrases are
\* written without diacritics here).
RegisteredMarkers == {"requires you to be registered and logged in",
                      "pozaduje, abyste byli registrovani a prihlaseni"}
LogoutMarkers == {"Logout", "Odhlasit se"}
\* A fetched verification page: the set of markers its text contains.
VerifyPages == {[kind |-> "page", marks |-> m] : m \in SUBSET (RegisteredMarkers \cup LogoutMarkers)}

HasRegistered(page) == page.marks \cap RegisteredMarkers # {}
HasLogout(page) == page.marks \cap LogoutMarkers # {}

\* "if not login_form": a missing form ends the login.
FormFound(form) == form # NoForm

\* Lines 61-94: GET the login page, locate the form.
login_load_page ==
    /\ pc = "login"
    /\ lastRequest' = [kind |-> "request", method |-> "GET", target |-> "login_url"]
    /\ loginReqs' = Append(loginReqs, [req |-> "GET login_url", at |-> lstate])
    /\ \E got \in {RequestException} \cup Forms \cup {NoForm} :
         IF got = RequestException
         THEN /\ lstate' = "Failed"
              /\ loginResult' = "False"
              /\ login_form' = NoForm
              /\ pc' = "login_return"
         ELSE /\ login_form' = got
              /\ IF FormFound(got)
                 THEN /\ lstate' = "FormLoaded"
                      /\ loginResult' = loginResult
                      /\ pc' = "login_submit"
                 ELSE /\ lstate' = "Failed"
                      /\ loginResult' = "False"
                      /\ pc' = "login_return"
    /\ UNCHANGED <<unitVars, parserVars, test_response, main_response, crawlVars, forumVars, heliosVars>>

\* Variant: the handler of the POST lacks its "return False".
AfterPost_NoReturn(got) == "login_verify"

\* Lines 99-104: a failed POST returns False, a successful one goes on to verify.
AfterPost(got) == IF got = RequestException THEN "login_return" ELSE "login_verify"

\* Lines 96-106: POST the credentials and the hidden fields.
login_submit ==
    /\ pc = "login_submit"
    /\ lastRequest' = [kind |-> "request", method |-> "POST", target |-> "action_url", data |-> login_data(login_form)]
    /\ loginReqs' = Append(loginReqs, [req |-> "POST action_url", at |-> lstate])
    /\ \E got \in {RequestException, Ok} :
         /\ pc' = AfterPost(got)
         /\ IF got = RequestException
            THEN /\ lstate' = "Failed"
                 /\ loginResult' = "False"
            ELSE /\ lstate' = "CredentialsSubmitted"
                 /\ loginResult' = loginResult
    /\ UNCHANGED <<unitVars, parserVars, login_form, test_response, main_response, crawlVars, forumVars, heliosVars>>

\* Variant: a page with neither marker fails the login at once, without the
\* request to the site root.
VerifyOutcome_NoRootRetry(page) ==
    IF HasLogout(page) /\ ~HasRegistered(page) THEN "True" ELSE "False"

\* Lines 113-120: the if / elif / else over the protected topic's markup.  The
\* registration message is tested first, so it wins over a logout link.
VerifyOutcome(page) ==
    IF HasRegistered(page) THEN "False"
    ELSE IF HasLogout(page) THEN "True"
    ELSE "retry"

\* Lines 108-119: GET the protected topic (outside any try) and classify it.
login_verify ==
    /\ pc = "login_verify"
    /\ lastRequest' = [kind |-> "request", method |-> "GET", target |-> "test_url"]
    /\ loginReqs' = Append(loginReqs, [req |-> "GET test_url", at |-> lstate])
    /\ \E page \in {RequestException} \cup VerifyPages :
         IF page = RequestException
         THEN \* not caught in login() nor run(): main()'s "except Exception"
              /\ test_response' = NoPage
              /\ UNCHANGED <<lstate, loginResult>>
              /\ pc' = "caught"
         ELSE /\ test_response' = page
              /\ IF VerifyOutcome(page) = "False"
                 THEN /\ lstate' = "Failed"
                      /\ loginResult' = "False"
                      /\ pc' = "login_return"
                 ELSE IF VerifyOutcome(page) = "True"
                 THEN /\ lstate' = "Verified"
                      /\ loginResult' = "True"
                      /\ pc' = "login_return"
                 ELSE /\ UNCHANGED <<lstate, loginResult>>
                      /\ pc' = "login_verify_root"
    /\ UNCHANGED <<unitVars, parserVars, login_form, main_response, crawlVars, forumVars, heliosVars>>

\* Lines 120-128: neither marker: GET the site root (outside any try).
login_verify_root ==
    /\ pc = "login_verify_root"
    /\ lastRequest' = [kind |-> "request", method |-> "GET", target |-> "index.php"]
    /\ loginReqs' = Append(loginReqs, [req |-> "GET index.php", at |-> lstate])
    /\ \E page \in {RequestException} \cup VerifyPages :
         IF page = RequestException
         THEN /\ main_response' = NoPage
              /\ UNCHANGED <<lstate, loginResult>>
              /\ pc' = "caught"
         ELSE /\ main_response' = page
              /\ IF HasLogout(page)
                 THEN /\ lstate' = "Verified"
                      /\ loginResult' = "True"
                 ELSE /\ lstate' = "Failed"
                      /\ loginResult' = "False"
              /\ pc' = "login_return"
    /\ UNCHANGED <<unitVars, parserVars, login_form, test_response, crawlVars, forumVars, heliosVars>>

-----------------------------------------------------------------------------
(* Input: links.txt and PirateForumScraper.read_links_from_file *)

\* The query string of a URL: its name=value pairs, in order.  A value may be
\* blank ("start=").
QueryPair(k, v) == [key |-> k, value |-> v]
\* The query strings of the lines of links.txt in a run of the crawler.
LinkQueries == {<<>>,
                <<QueryPair("t", "1")>>,
                <<QueryPair("t", "1"), QueryPair("start", "0")>>,
                <<QueryPair("start", "0")>>}

\* A line of links.txt after strip(): blank, a '#' comment, or other text that
\* may contain the host substring and the path substring, with its query string.
BlankLine == [kind |-> "blank"]
CommentLine == [kind |-> "comment"]
TextLines == [kind : {"text"}, host : BOOLEAN, viewtopic : BOOLEAN, query : LinkQueries]
Lines == {BlankLine, CommentLine} \cup TextLines
\* The links file: whether it exists, and its lines.
LinksFiles == [exists : BOOLEAN, lines : SeqsUpTo(Lines, MaxLines)]

\* Variant: "or" between the two substring tests.
IsValidLine_Either(line) ==
    /\ line.kind = "text"
    /\ line.host \/ line.viewtopic

\* Line 149-150: the lines kept by the reader.
IsValidLine(line) ==
    /\ line.kind = "text"          \* "if line and not line.startswith('#')"
    /\ line.host /\ line.viewtopic \* both substrings present

RECURSIVE SelectLines(_)
SelectLines(lines) ==
    IF lines = <<>> THEN <<>>
    ELSE LET n == Len(lines)
             before == SelectLines(SubSeq(lines, 1, n - 1))
         IN  IF IsValidLine(lines[n]) THEN Append(before, lines[n]) ELSE before

read_links_from_file(file) ==
    IF ~file.exists THEN <<>> ELSE SelectLines(file.lines)

\* Lines 152-153: the lines a warning is printed for.
Warnings(file) ==
    IF ~file.exists THEN 0
    ELSE Cardinality({k \in DOMAIN file.lines :
                         file.lines[k].kind = "text" /\ ~IsValidLine(file.lines[k])})

\* Variant: parse_qs(..., keep_blank_values=True).
parse_qs_KeepBlank(query) ==
    [k \in {query[j].key : j \in DOMAIN query} |->
        LET pairs == SelectSeq(query, LAMBDA p : p.key = k)
        IN  [j \in DOMAIN pairs |-> pairs[j].value]]

\* urllib.parse.parse_qs: each name mapped to the list of its values, in
\* order; a pair with a blank value is dropped, and a name with only blank
\* values is not a key of the result.
parse_qs(query) ==
    [k \in {query[j].key : j \in {j \in DOMAIN query : query[j].value # ""}} |->
        LET pairs == SelectSeq(query, LAMBDA p : p.key = k /\ p.value # "")
        IN  [j \in DOMAIN pairs |-> pairs[j].value]]

\* extract_topic_info_from_url: (topic_id, start_value); "None" is Python's None
extract_topic_info_from_url(url) ==
    LET query_params == parse_qs(url.query)
    IN  [topic_id |-> IF "t" \in DOMAIN query_params THEN query_params["t"][1] ELSE "None",
         start_value |-> IF "start" \in DOMAIN query_params
                         THEN query_params["start"][1] ELSE "0"]

-----------------------------------------------------------------------------
(* PageFetcher: PirateForumScraper.scrape_url *)

\* Phrases scrape_url scans the lowered body for (Czech without diacritics).
error_indicators == {"this topic does not exist", "toto tema neexistuje",
                     "topic not found", "tema nenalezeno",
                     "page not found", "stranka nenalezena"}

\* A response body: the length of its text, the length of the stripped text,
\* and the phrases its lowered text contains.
BodyShort == [len |-> 50, stripped |-> 50, phrases |-> {}]
BodyPadded == [len |-> 120, stripped |-> 99, phrases |-> {}]
BodyMinimal == [len |-> 100, stripped |-> 100, phrases |-> {}]
BodyTopic == [len |-> 2000, stripped |-> 2000, phrases |-> {}]
BodyNoTopic == [len |-> 800, stripped |-> 800, phrases |-> {"toto tema neexistuje"}]
BodyNoPage == [len |-> 900, stripped |-> 900, phrases |-> {"page not found"}]
BodyRegister == [len |-> 1500, stripped |-> 1500,
                 phrases |-> {"requires you to be registered and logged in"}]
Bodies == {BodyShort, BodyPadded, BodyMinimal, BodyTopic, BodyNoTopic, BodyNoPage, BodyRegister}

HttpResponse(status, body) == [kind |-> "response", status_code |-> status, body |-> body]
Responses ==
    {RequestException} \cup {HttpResponse(HTTP_OK, b) : b \in Bodies}
                       \cup {HttpResponse(404, BodyNoPage), HttpResponse(500, BodyTopic)}

\* Variant: a bare "except:", which also swallows KeyboardInterrupt.
except_Exception_Bare(cls) == TRUE

\* Variant: a handler for the errors of the code between the try and the
\* except only, "except (ValueError, KeyError)".
except_Exception_ValueError(cls) == cls \in {"ValueError", "KeyError"}

\* Line 244, "except Exception": the exception classes that handler catches.
\* KeyboardInterrupt derives from BaseException and passes through.
except_Exception(cls) == cls \in {"Exception", "RequestException", "OSError"}

\* Lines 224-226: the body shows one of the error indicators.
HasErrorIndicator(body) == \E indicator \in error_indicators : indicator \in body.phrases

\* Variant: the length of the text as it came, len(response.text).
TooShort_Unstripped(body) == body.len < MinPageLength
\* Line 208: len(response.text.strip()) < 100
TooShort(body) == body.stripped < MinPageLength

\* Lines 203-246: None, or the page data of a page taken as usable.  An
\* exception of session.get meets the handler of line 244.
scrape_url(url, r) ==
    IF r = RequestException
    THEN IF except_Exception("RequestException") THEN None ELSE Raised("RequestException")
    ELSE IF r.status_code # HTTP_OK THEN None
    ELSE IF TooShort(r.body) THEN None
    ELSE IF HasErrorIndicator(r.body) THEN None
    ELSE [kind |-> "page_data",
          id |-> extract_topic_info_from_url(url).topic_id,
          start |-> extract_topic_info_from_url(url).start_value,
          url |-> url,
          raw_html |-> r.body,
          status_code |-> r.status_code,
          content_length |-> r.body.len]

-----------------------------------------------------------------------------
(* Output directory *)

EmptyDir == [n \in {} |-> None]
\* str.startswith and str.endswith
startswith(s, prefix) ==
    Len(s) >= Len(prefix) /\ SubSeq(s, 1, Len(prefix)) = prefix
endswith(s, suffix) ==
    Len(s) >= Len(suffix) /\ SubSeq(s, Len(s) - Len(suffix) + 1, Len(s)) = suffix

\* Line 264, f"topic_{page_data['id']}-{page_data['start']}.xml": the
\* identifier and the offset as str() prints them, None as "None".
PageFileName(pd) == "topic_" \o pd.id \o "-" \o pd.start \o ".xml"
\* f"scraping_summary_{timestamp}.xml", the timestamp of one run
SummaryFileName == "scraping_summary_20190506_122000.xml"
\* open(filepath, 'w') creates or truncates the file
Truncated == [kind |-> "truncated"]
Markup(body) == [kind |-> "markup", body |-> body]
WriteFile(dir, name, content) ==
    [n \in DOMAIN dir \cup {name} |-> IF n = name THEN content ELSE dir[n]]

\* save_summary_xml: the document built from scraped_files
RECURSIVE PageEntries(_)
PageEntries(sf) ==
    IF sf = <<>> THEN <<>>
    ELSE LET n == Len(sf)
         IN  Append(PageEntries(SubSeq(sf, 1, n - 1)),
                    [id |-> sf[n].page_data.id, start |-> sf[n].page_data.start,
                     file |-> sf[n].filepath,
                     content_length |-> sf[n].page_data.content_length,
                     status_code |-> sf[n].page_data.status_code,
                     url |-> sf[n].page_data.url])
save_summary_xml(sf) ==
    [kind |-> "summary", total_pages |-> Len(sf), pages |-> PageEntries(sf)]

-----------------------------------------------------------------------------
(* CrawlController, explicit-list strategy: PirateForumScraper.run *)

\* Lines 334-336: login() has returned; a False result is only reported.
\* The locals of login() are gone once it has returned.
run_login_return ==
    /\ pc = "login_return"
    /\ pc' = "read_links"
    /\ login_form' = NoForm
    /\ test_response' = NoPage
    /\ main_response' = NoPage
    /\ UNCHANGED <<unitVars, parserVars, lstate, loginReqs, lastRequest, loginResult, crawlVars, forumVars, heliosVars>>

\* Lines 338-352: read the links, start the loop.
run_read_links ==
    /\ pc = "read_links"
    /\ \E file \in LinksFiles :
         /\ urls' = read_links_from_file(file)
         /\ warned' = Warnings(file)
         /\ pc' = IF urls' = <<>> THEN "done" ELSE "scrape"
    /\ i' = 1
    /\ scraped_files' = <<>>
    /\ successful_scrapes' = 0
    /\ skipped_urls' = 0
    /\ UNCHANGED <<unitVars, parserVars, loginVars, response, page_data, files, summary,
                   sinceFetch, fetchLog, interrupted, parser_pc, parsed, report, heliosVars>>

\* Lines 357-366: fetch the target and classify the response.
run_scrape_url ==
    /\ pc = "scrape"
    /\ \E r \in Responses :
         /\ response' = r
         /\ page_data' = scrape_url(urls[i], r)
    /\ lastRequest' = [kind |-> "request", method |-> "GET", target |-> urls[i]]
    /\ fetchLog' = Append(fetchLog, i)
    /\ sinceFetch' = "fetched"
    /\ IF page_data' = None
       THEN /\ pc' = "sleep"
            /\ skipped_urls' = skipped_urls + 1
       ELSE IF page_data'.kind = "raised"
       THEN /\ pc' = "caught"        \* nothing in run() handles it: main()'s handler
            /\ UNCHANGED skipped_urls
       ELSE /\ pc' = "save_open"
            /\ UNCHANGED skipped_urls
    /\ UNCHANGED <<unitVars, parserVars, lstate, loginReqs, login_form, test_response, main_response, loginResult,
                   urls, i, scraped_files, files, summary, successful_scrapes, interrupted,
                   parser_pc, parsed, warned, report, heliosVars>>

\* save_page_as_html lines 259-268: build the name, open the file for writing.
\* An OSError is not handled in run(): it reaches main()'s "except Exception".
run_save_open ==
    /\ pc = "save_open"
    /\ \E got \in {Ok, OSError} :
         IF got = Ok
         THEN /\ files' = WriteFile(files, PageFileName(page_data), Truncated)
              /\ pc' = "save_write"
         ELSE /\ UNCHANGED files
              /\ pc' = "caught"
    /\ UNCHANGED <<unitVars, parserVars, loginVars, urls, i, response, page_data, scraped_files, summary, sinceFetch,
                   fetchLog, forumVars, heliosVars>>

\* save_page_as_html lines 269-273 and run lines 361-363.
run_save_write ==
    /\ pc = "save_write"
    /\ \E got \in {Ok, OSError} :
         IF got = Ok
         THEN /\ files' = WriteFile(files, PageFileName(page_data), Markup(page_data.raw_html))
              /\ scraped_files' = Append(scraped_files,
                     [filepath |-> PageFileName(page_data), page_data |-> page_data])
              /\ successful_scrapes' = successful_scrapes + 1
              /\ pc' = "sleep"
         ELSE /\ UNCHANGED <<files, scraped_files, successful_scrapes>>
              /\ pc' = "caught"
    /\ UNCHANGED <<unitVars, parserVars, loginVars, urls, i, response, page_data, summary, sinceFetch, fetchLog,
                   skipped_urls, interrupted, parser_pc, parsed, warned, report, heliosVars>>

\* Variant: a target that gave no page data is tried again.
AfterTarget_RetryFailed(data, k, total) ==
    IF data = None THEN [i |-> k, pc |-> "scrape"]
    ELSE IF k < total THEN [i |-> k + 1, pc |-> "scrape"]
    ELSE [i |-> k, pc |-> "summary"]

\* Line 354, "for i, url in enumerate(urls, 1)": whatever target k gave, the
\* loop takes target k + 1, and ends after the last one.
AfterTarget(data, k, total) ==
    IF k < total THEN [i |-> k + 1, pc |-> "scrape"]
    ELSE [i |-> k, pc |-> "summary"]

\* Lines 368-378: progress report, time.sleep(delay), next target.
run_sleep ==
    /\ pc = "sleep"
    /\ sinceFetch' = "slept"
    /\ i' = AfterTarget(page_data, i, Len(urls)).i
    /\ pc' = AfterTarget(page_data, i, Len(urls)).pc
    /\ UNCHANGED <<unitVars, parserVars, loginVars, urls, response, page_data, scraped_files, files, summary,
                   fetchLog, forumVars, heliosVars>>

\* Variant: the counts are printed only for a run without a skipped target;
\* a run with one is reported as failed.
ClosingReport_FailsOnSkip(sf, ok, skipped) ==
    IF sf # <<>> /\ skipped = 0
    THEN [kind |-> "completed", successful |-> ok, skipped |-> skipped]
    ELSE [kind |-> "no_data"]

\* Lines 381-397: "Scraping completed!" with the two counts when a page was
\* saved, "No data was scraped" otherwise.
ClosingReport(sf, ok, skipped) ==
    IF sf # <<>>
    THEN [kind |-> "completed", successful |-> ok, skipped |-> skipped]
    ELSE [kind |-> "no_data"]

\* Lines 380-397: the summary is written only here, after the loop.
run_summary ==
    /\ pc = "summary"
    /\ IF scraped_files # <<>>
       THEN /\ summary' = save_summary_xml(scraped_files)
            /\ files' = WriteFile(files, SummaryFileName, summary')
       ELSE UNCHANGED <<summary, files>>
    /\ report' = ClosingReport(scraped_files, successful_scrapes, skipped_urls)
    /\ pc' = "done"
    /\ UNCHANGED <<unitVars, parserVars, loginVars, urls, i, response, page_data, scraped_files, sinceFetch,
                   fetchLog, successful_scrapes, skipped_urls, interrupted, parser_pc, parsed,
                   warned, heliosVars>>

\* Positions inside scraper.run(...)
RunPcs == {"login", "login_submit", "login_verify", "login_verify_root", "login_return",
           "read_links", "scrape", "save_open", "save_write", "sleep", "summary"}

\* main() lines 421-424: a KeyboardInterrupt raised anywhere in run() leaves
\* run() and is reported.  Inside scrape_url's try block it meets the handler
\* of line 244 first.
Interrupt ==
    /\ pc \in RunPcs
    /\ ~interrupted
    /\ interrupted' = TRUE
    /\ IF pc = "scrape" /\ except_Exception("KeyboardInterrupt")
       THEN /\ page_data' = None
            /\ skipped_urls' = skipped_urls + 1
            /\ pc' = "sleep"
       ELSE /\ UNCHANGED <<page_data, skipped_urls>>
            /\ pc' = "interrupted"
    /\ UNCHANGED <<unitVars, parserVars, loginVars, urls, i, response, scraped_files, files, summary, sinceFetch,
                   fetchLog, successful_scrapes, parser_pc, parsed, warned, report, heliosVars>>

-----------------------------------------------------------------------------
(* parsing_pirate_posts.py: ForumXMLParser.process_all_xml_files *)

\* Line 287: every name of the input folder that ends in .xml (the names the
\* crawler writes are already lower case at the end)
xml_files(dir) == {n \in DOMAIN dir : endswith(n, ".xml")}

IsDigitChar(c) == c \in {"0", "1", "2", "3", "4", "5", "6", "7", "8", "9"}
\* (\d+) matched at the start of s
digits_at(s) ==
    LET stops == {k \in 1 .. Len(s) : ~IsDigitChar(SubSeq(s, k, k))}
    IN  IF stops = {} THEN s
        ELSE SubSeq(s, 1, (CHOOSE k \in stops : \A q \in stops : k <= q) - 1)

\* Lines 186-191: re.search(r'topic_(\d+)', filename), "" without a match
extract_forum_id_from_filename(filename) ==
    LET hits == {p \in 1 .. Len(filename) - 6 :
                    /\ SubSeq(filename, p, p + 5) = "topic_"
                    /\ IsDigitChar(SubSeq(filename, p + 6, p + 6))}
    IN  IF hits = {} THEN ""
        ELSE LET match == CHOOSE p \in hits : \A q \in hits : p <= q
             IN  digits_at(SubSeq(filename, match + 6, Len(filename)))

\* Lines 280-300, run on the crawler's output directory once the crawler has
\* ended: for each listed file process_xml_file (lines 256-263) takes the
\* forum id from the file name, reads the file and hands both to
\* parse_forum_xml.
process_all_xml_files ==
    /\ pc \in {"done", "caught", "interrupted"}
    /\ parser_pc = "idle"
    /\ parsed' = {[file |-> n,
                   forum_id |-> extract_forum_id_from_filename(n),
                   content |-> files[n]] : n \in xml_files(files)}
    /\ parser_pc' = "done"
    /\ UNCHANGED <<unitVars, parserVars, pc, loginVars, crawlVars, successful_scrapes, skipped_urls, interrupted,
                   warned, report, heliosVars>>

-----------------------------------------------------------------------------
(* The forum program *)

Init ==
    /\ pc = "login"
    /\ lstate = "Unauthenticated"
    /\ loginReqs = <<>>
    /\ lastRequest = NoRequest
    /\ login_form = NoForm
    /\ test_response = NoPage
    /\ main_response = NoPage
    /\ loginResult = "none"
    /\ urls = <<>>
    /\ i = 0
    /\ response = NoResponse
    /\ page_data = None
    /\ scraped_files = <<>>
    /\ successful_scrapes = 0
    /\ skipped_urls = 0
    /\ files = EmptyDir
    /\ summary = NoSummary
    /\ sinceFetch = "none"
    /\ fetchLog = <<>>
    /\ interrupted = FALSE
    /\ parser_pc = "idle"
    /\ parsed = {}
    /\ page_num = 0
    /\ realPages = 0
    /\ warned = 0
    /\ report = NoReport
    /\ call = NoCall
    /\ returned = NoReturn
    /\ parser = ForumXMLParser
    /\ history = <<>>

Next ==
    \/ login_load_page
    \/ login_submit
    \/ login_verify
    \/ login_verify_root
    \/ run_login_return
    \/ run_read_links
    \/ run_scrape_url
    \/ run_save_open
    \/ run_save_write
    \/ run_sleep
    \/ run_summary
    \/ Interrupt
    \/ process_all_xml_files

Spec == Init /\ [][Next]_vars

-----------------------------------------------------------------------------
(* parsing_pirate_votes.py: HeliosScraper *)

\* A line of links_HELIOS.txt after strip(): blank, a '#' comment, or a URL
\* whose path holds an election id at position 3 ("None" when it does not),
\* with the value of the page parameter of its query: digits ("7"), something
\* else ("x", as in "page=x"), or "None" when the text "page=" is not in it.
HeliosLines == {BlankLine, CommentLine}
               \cup [kind : {"text"}, election_id : {"None", "E1"}, page : {"None", "7", "x"}]
HeliosLinksFiles == [exists : BOOLEAN, lines : SeqsUpTo(HeliosLines, MaxLines)]

RECURSIVE SelectHeliosLines(_)
SelectHeliosLines(lines) ==
    IF lines = <<>> THEN <<>>
    ELSE LET n == Len(lines)
             before == SelectHeliosLines(SubSeq(lines, 1, n - 1))
         IN  IF lines[n].kind = "text" THEN Append(before, lines[n]) ELSE before

\* Lines 110-126: no validation beyond blank lines and comments.
Helios_read_links_from_file(file) ==
    IF ~file.exists THEN <<>> ELSE SelectHeliosLines(file.lines)

\* \d+ matches the value
IsDigits(value) == value \in {ToString(d) : d \in 0 .. MaxPageNum}

\* re.sub(r"page=\d+", f"page={page_num}", base_url), as the page value of the
\* result: a value that is not digits is left as it is.
re_sub_page(value, page_num_str) == IF IsDigits(value) THEN page_num_str ELSE value

\* Lines 234-239: replace or insert the page parameter.
PageUrl(base_url, n) ==
    IF base_url.page # "None"                           \* "page=" in base_url
    THEN [kind |-> "url", election_id |-> base_url.election_id,
          page |-> re_sub_page(base_url.page, ToString(n))]
    ELSE [kind |-> "url", election_id |-> base_url.election_id,
          page |-> ToString(n)]                         \* "?page=n" or "&page=n" appended

\* Lines 128-142: (election_id, page) or (None, None)
extract_election_info_from_url(url) ==
    IF url.election_id = "None"
    THEN [election_id |-> "None", page |-> "None"]
    ELSE [election_id |-> url.election_id, page |-> url.page]

\* Environment: the election server.  It holds realPages pages of the roll of
\* the current base URL; a page past the end is answered by an error, a
\* transport failure or a short page.
RealPageCounts == (0 .. MaxRealPages) \cup {MaxPageNum}
RollLength(p) ==
    CASE p % 4 = 1 -> 2000
      [] p % 4 = 2 -> 1800
      [] p % 4 = 3 -> 1900
      [] OTHER -> PaginationThreshold
RollBody(len) == [len |-> len, stripped |-> len, phrases |-> {}]
HeliosResponses(p, real) ==
    IF p <= real
    THEN {HttpResponse(HTTP_OK, RollBody(RollLength(p)))}
    ELSE {RequestException, HttpResponse(404, RollBody(300)),
          HttpResponse(HTTP_OK, RollBody(50)),
          HttpResponse(HTTP_OK, RollBody(PaginationThreshold - 1))}

\* The answers to a request for url made in iteration n: page n of the roll
\* when the URL asks for it; a page value that is no number is answered like
\* a request for the first page (a refusal when the roll has no page).
ServerAnswers(url, n, real) ==
    HeliosResponses(IF url.page = ToString(n) THEN n ELSE 1, real)

\* What the server returned is a page of the roll: an answer with status 200
\* whose content length reaches the pagination threshold.
IsViable(r) ==
    /\ r.kind = "response"
    /\ r.status_code = HTTP_OK
    /\ r.body.len >= PaginationThreshold

\* Lines 144-170: None, or the page data (no request when the URL is not recognized).
Helios_scrape_url(url, r) ==
    IF extract_election_info_from_url(url).election_id = "None" THEN None
    ELSE IF r = RequestException THEN None
    ELSE IF r.status_code # HTTP_OK THEN None
    ELSE [kind |-> "page_data",
          election_id |-> extract_election_info_from_url(url).election_id,
          page |-> extract_election_info_from_url(url).page,
          url |-> url,
          raw_html |-> r.body,
          status_code |-> r.status_code,
          content_length |-> r.body.len]

\* Variant: only a missing page stops the pagination, the length is not looked at.
StopsPagination_NoLengthCheck(data) == data = None

\* Line 246: the page ends the pagination of its base URL.
StopsPagination(data) ==
    \/ data = None
    \/ data.content_length < PaginationThreshold

\* f"election_{election_id}_page_{page}.xml"
ElectionFileName(pd) ==
    [prefix |-> "election", id |-> pd.election_id, page |-> pd.page, ext |-> "xml"]
HeliosSummaryFileName == [prefix |-> "summary", ext |-> "xml"]

RECURSIVE HeliosPageEntries(_)
HeliosPageEntries(sf) ==
    IF sf = <<>> THEN <<>>
    ELSE LET n == Len(sf)
         IN  Append(HeliosPageEntries(SubSeq(sf, 1, n - 1)),
                    [election_id |-> sf[n].page_data.election_id,
                     page |-> sf[n].page_data.page, file |-> sf[n].filepath])
\* Lines 188-213
Helios_save_summary_xml(sf) ==
    [kind |-> "summary", total_pages |-> Len(sf), pages |-> HeliosPageEntries(sf)]

\* Lines 215-227
Helios_run_read_links ==
    /\ pc = "h_start"
    /\ \E file \in HeliosLinksFiles :
         /\ urls' = Helios_read_links_from_file(file)
         /\ pc' = IF urls' = <<>> THEN "h_done" ELSE "h_fetch"
    /\ i' = 1
    /\ page_num' = 1
    /\ \E real \in RealPageCounts : realPages' = real
    /\ scraped_files' = <<>>
    /\ UNCHANGED <<unitVars, parserVars, loginVars, response, page_data, files, summary, sinceFetch, fetchLog,
                   forumVars>>

\* The for loop over urls moves to the next base URL, or ends.
HeliosNextBase ==
    IF i < Len(urls)
    THEN /\ i' = i + 1
         /\ page_num' = 1
         /\ \E real \in RealPageCounts : realPages' = real
         /\ pc' = "h_fetch"
    ELSE /\ UNCHANGED <<i, page_num, realPages>>
         /\ pc' = "h_summary"

\* Lines 233-248: build the page URL, fetch it, stop this base URL on a
\* missing or short page.
Helios_run_fetch ==
    /\ pc = "h_fetch"
    /\ LET url == PageUrl(urls[i], page_num)
           recognised == extract_election_info_from_url(url).election_id # "None"
       IN  /\ \E r \in ServerAnswers(url, page_num, realPages) :
                 /\ response' = IF recognised THEN r ELSE NoResponse
                 /\ page_data' = Helios_scrape_url(url, r)
           /\ IF recognised
              THEN /\ lastRequest' = [kind |-> "request", method |-> "GET", target |-> url]
                   /\ fetchLog' = Append(fetchLog,
                          [base |-> i, page |-> page_num, url |-> url,
                           viable |-> IsViable(response')])
                   /\ sinceFetch' = "fetched"
              ELSE UNCHANGED <<lastRequest, fetchLog, sinceFetch>>
    /\ IF StopsPagination(page_data')
       THEN HeliosNextBase
       ELSE /\ pc' = "h_save"
            /\ UNCHANGED <<i, page_num, realPages>>
    /\ UNCHANGED <<unitVars, parserVars, lstate, loginReqs, login_form, test_response, main_response, loginResult,
                   urls, scraped_files, files, summary, forumVars>>

\* Variant: "while True" with a counter in place of the bounded range.
HasNextPage_Unbounded(n) == TRUE

\* Line 233, "for page_num in range(1, 26)": page n is followed by another.
HasNextPage(n) == n < MaxPageNum

\* Lines 250-254 and the loop header: save, record, sleep, next page.
\* main() (lines 262-264) has no handler: an OSError ends the process.
Helios_run_save ==
    /\ pc = "h_save"
    /\ \E got \in {Ok, OSError} :
         IF got = Ok
         THEN /\ files' = WriteFile(files, ElectionFileName(page_data), Markup(page_data.raw_html))
              /\ scraped_files' = Append(scraped_files,
                     [filepath |-> ElectionFileName(page_data), page_data |-> page_data])
              /\ sinceFetch' = "slept"
              /\ IF HasNextPage(page_num)
                 THEN /\ page_num' = page_num + 1
                      /\ pc' = "h_fetch"
                      /\ UNCHANGED <<i, realPages>>
                 ELSE HeliosNextBase
         ELSE /\ pc' = "crashed"
              /\ UNCHANGED <<files, scraped_files, sinceFetch, i, page_num, realPages>>
    /\ UNCHANGED <<unitVars, parserVars, loginVars, urls, response, page_data, summary, fetchLog, forumVars>>

\* Lines 256-259
Helios_run_summary ==
    /\ pc = "h_summary"
    /\ IF scraped_files # <<>>
       THEN /\ summary' = Helios_save_summary_xml(scraped_files)
            /\ files' = WriteFile(files, HeliosSummaryFileName, summary')
       ELSE UNCHANGED <<summary, files>>
    /\ pc' = "h_done"
    /\ UNCHANGED <<unitVars, parserVars, loginVars, urls, i, response, page_data, scraped_files, sinceFetch,
                   fetchLog, forumVars, heliosVars>>

HeliosInit ==
    /\ pc = "h_start"
    /\ lstate = "Unauthenticated"
    /\ loginReqs = <<>>
    /\ lastRequest = NoRequest
    /\ login_form = NoForm
    /\ test_response = NoPage
    /\ main_response = NoPage
    /\ loginResult = "none"
    /\ urls = <<>>
    /\ i = 0
    /\ response = NoResponse
    /\ page_data = None
    /\ scraped_files = <<>>
    /\ successful_scrapes = 0
    /\ skipped_urls = 0
    /\ files = EmptyDir
    /\ summary = NoSummary
    /\ sinceFetch = "none"
    /\ fetchLog = <<>>
    /\ interrupted = FALSE
    /\ parser_pc = "idle"
    /\ parsed = {}
    /\ page_num = 0
    /\ realPages = 0
    /\ warned = 0
    /\ report = NoReport
    /\ call = NoCall
    /\ returned = NoReturn
    /\ parser = ForumXMLParser
    /\ history = <<>>

HeliosNext ==
    \/ Helios_run_read_links
    \/ Helios_run_fetch
    \/ Helios_run_save
    \/ Helios_run_summary

SpecHelios == HeliosInit /\ [][HeliosNext]_vars

-----------------------------------------------------------------------------
(* Either program: a run of main_scraping.py or a run of the Helios scraper *)

InitBoth == Init \/ HeliosInit

NextBoth == Next \/ HeliosNext

SpecBoth == InitBoth /\ [][NextBoth]_vars

-----------------------------------------------------------------------------
(* The functions called on their own: one call, one return *)

MaxParams == 2
MaxRecords == 2

\* A line as it stands in links.txt: the text, and whether whitespace (the
\* newline, indentation) surrounds it.
RawLines == [pad : BOOLEAN, text : Lines]
\* Line 148: line.strip()
strip(raw) == raw.text
\* The file as the reader's loop sees it, line by line after strip().
StrippedFile(rawfile) ==
    [exists |-> rawfile.exists,
     lines |-> [k \in DOMAIN rawfile.lines |-> strip(rawfile.lines[k])]]
RawFiles == {[exists |-> FALSE, lines |-> <<>>]}
                \cup [exists : {TRUE}, lines : SeqsUpTo(RawLines, MaxLines)]

\* The forum URLs handed to extract_topic_info_from_url: any query string of
\* up to MaxParams name=value pairs.
ParamNames == {"t", "start", "f"}
ParamValues == {"", "1", "20"}
QueryPairs == [key : ParamNames, value : ParamValues]
ForumUrls == [kind : {"text"}, host : {TRUE}, viewtopic : {TRUE},
              query : SeqsUpTo(QueryPairs, MaxParams)]

\* A cell of a record or of a sheet: text, a number, or pandas' missing value.
Str(s) == [str |-> s]
Num(n) == [int |-> n]
NaN == [nan |-> TRUE]

\* str.removeprefix
removeprefix_Every(s, prefix) ==
    IF startswith(s, prefix)
    THEN IF startswith(SubSeq(s, Len(prefix) + 1, Len(s)), prefix)
         THEN SubSeq(s, 2 * Len(prefix) + 1, Len(s))
         ELSE SubSeq(s, Len(prefix) + 1, Len(s))
    ELSE s
removeprefix(s, prefix) ==
    IF startswith(s, prefix) THEN SubSeq(s, Len(prefix) + 1, Len(s)) ELSE s

\* str.find, 1-based: the position of the first occurrence of sub in s, or 0
find(s, sub) ==
    LET hits == {p \in 1 .. Len(s) - Len(sub) + 1 : SubSeq(s, p, p + Len(sub) - 1) = sub}
    IN  IF hits = {} THEN 0 ELSE CHOOSE p \in hits : \A q \in hits : p <= q
\* "sub in s"
contains(s, sub) == find(s, sub) > 0

\* Lines 21-27, clean_text: runs of whitespace become one space, after strip().
IsSpace(c) == c \in {" ", "\t", "\n"}
lstrip(s) ==
    LET kept == {k \in 1 .. Len(s) : ~IsSpace(SubSeq(s, k, k))}
    IN  IF kept = {} THEN ""
        ELSE SubSeq(s, CHOOSE k \in kept : \A q \in kept : k <= q, Len(s))
rstrip(s) ==
    LET kept == {k \in 1 .. Len(s) : ~IsSpace(SubSeq(s, k, k))}
    IN  IF kept = {} THEN ""
        ELSE SubSeq(s, 1, CHOOSE k \in kept : \A q \in kept : k >= q)
\* re.sub(r'\s+', ' ', s): one step per run of whitespace
RECURSIVE re_sub_spaces(_)
re_sub_spaces(s) ==
    LET spaces == {k \in 1 .. Len(s) : IsSpace(SubSeq(s, k, k))}
    IN  IF spaces = {} THEN s
        ELSE LET run == CHOOSE k \in spaces : \A q \in spaces : k <= q
                 kept == {k \in run .. Len(s) : ~IsSpace(SubSeq(s, k, k))}
                 rest == IF kept = {} THEN ""
                         ELSE SubSeq(s, CHOOSE k \in kept : \A q \in kept : k <= q, Len(s))
             IN  SubSeq(s, 1, run - 1) \o " " \o re_sub_spaces(rest)
clean_text(text) == IF text = "" THEN "" ELSE re_sub_spaces(rstrip(lstrip(text)))

\* ', '.join(names)
RECURSIVE join(_)
join(names) ==
    IF names = <<>> THEN ""
    ELSE IF Len(names) = 1 THEN names[1]
    ELSE join(SubSeq(names, 1, Len(names) - 1)) \o ", " \o names[Len(names)]

\* The <time> element of a post: its datetime attribute ("None" when it has
\* none) and its visible label.
IsoAttrs == {"2019-05-06T10:20:30+00:00", "2019-05-06T10:20:30Z"}
TimeAttrs == {"None", "", "vcera"} \cup IsoAttrs
TimeLabels == {"06 kve 2019, 12:20", "vcera"}
TimeElems == [attr : TimeAttrs, label : TimeLabels]
\* str(time_elem)
str_time(elem) ==
    IF elem.attr = "None" THEN "<time>" \o elem.label \o "</time>"
    ELSE "<time datetime=\"" \o elem.attr \o "\">" \o elem.label \o "</time>"

\* Line 41: datetime.fromisoformat(dt_str.replace('Z', '+00:00')) and strftime;
\* any other attribute value raises ValueError.
fromisoformat(dt_str) ==
    IF dt_str \in IsoAttrs THEN [kind |-> "datetime", strftime |-> "2019-05-06 10:20:30"]
    ELSE Raised("ValueError")
\* Line 45: the date and the time matched in the string, or None.
re_search_date(label) ==
    IF label = "06 kve 2019, 12:20" THEN <<"06 kve 2019", "12:20">> ELSE <<>>

\* Lines 44-47: the second rule, then line 52.
parse_datetime_FromText(elem) ==
    LET date_match == re_search_date(elem.label)
    IN  IF date_match # <<>> THEN date_match[1] \o " " \o date_match[2]
        ELSE str_time(elem)
\* Variant: the ValueError of the first rule is caught where it is raised.
AfterValueError_NextRule(elem) == parse_datetime_FromText(elem)
\* Lines 49-52: the except clause logs, and the function returns its argument.
AfterValueError(elem) == str_time(elem)
\* Lines 29-52
parse_datetime(elem) ==
    IF elem.attr # "None" /\ elem.attr # ""      \* 'datetime=' found, dt_match
    THEN IF fromisoformat(elem.attr).kind = "raised"
         THEN AfterValueError(elem)
         ELSE fromisoformat(elem.attr).strftime
    ELSE parse_datetime_FromText(elem)

\* A <dl> inside the post body: the list of thanks (its dt holds the phrase,
\* with or without "celkem N"; its dd, when present, lists names), or another
\* list such as an attachment box.
ThanksNames == {<<>>, <<"Bob">>, <<"Bob", "Al">>}
ThanksDls == [kind : {"thanks"}, total : {"None", "3"}, has_dd : {FALSE}, names : {<<>>}]
                \cup [kind : {"thanks"}, total : {"None", "3"}, has_dd : {TRUE},
                      names : ThanksNames]
OtherDl == [kind |-> "attachbox", total |-> "None", has_dd |-> TRUE, names |-> <<>>]
DlLists == {<<>>, <<OtherDl>>}
              \cup {<<d>> : d \in ThanksDls}
              \cup {<<OtherDl, d>> : d \in ThanksDls}
              \cup {<<d, OtherDl>> : d \in ThanksDls}

\* int(count_match.group(1))
int(digits) == CHOOSE n \in 0 .. 9 : ToString(n) = digits

\* Variant: the names are counted even when "celkem N" is present.
ThanksCount_Listed(total, names) == Len(names)
\* Lines 157-159, 169-170
ThanksCount(total, names) == IF total # "None" THEN int(total) ELSE Len(names)

\* Lines 152-170: the keys set from the first <dl> of the post body.
ThanksOf(dls) ==
    IF dls = <<>> \/ dls[1].kind # "thanks" THEN EmptyDict
    ELSE IF dls[1].has_dd
         THEN [k \in {"thanks_users", "thanks_count"} |->
                  IF k = "thanks_users" THEN Str(join(dls[1].names))
                  ELSE Num(ThanksCount(dls[1].total, dls[1].names))]
         ELSE IF dls[1].total # "None"
              THEN [k \in {"thanks_count"} |-> Num(int(dls[1].total))]
              ELSE EmptyDict

\* The link texts of post titles.
TitleTexts == {"Hello", "Re: Hello", "Re: Re: X", "Hello Re: X", " Re:  Hello\n"}

\* A post container: its id attribute, its author block ("full": every field,
\* "none": no dl.postprofile, "raises": markup extract_user_info raises on),
\* its div.postbody and what that holds, and whether extract_post_content
\* raises on it after the post id is read.
NoBodyPost(user) ==
    [post_id |-> "p1", user |-> user, postbody |-> FALSE, has_title |-> FALSE,
     title |-> "", has_time |-> FALSE, time |-> [attr |-> "None", label |-> "vcera"],
     has_content |-> FALSE, content |-> "", dls |-> <<>>, raises |-> FALSE]
BodyPost(user, has_title, title, has_time, time, dls, raises) ==
    [post_id |-> "p1", user |-> user, postbody |-> TRUE, has_title |-> has_title,
     title |-> title, has_time |-> has_time, time |-> time,
     has_content |-> TRUE, content |-> " Dobry  den ", dls |-> dls, raises |-> raises]
\* The posts of the pages handed to the parser.
PostDivs ==
    {NoBodyPost(u) : u \in {"full", "none", "raises"}}
        \cup {BodyPost(u, TRUE, "Re: Hello", TRUE,
                       [attr |-> "2019-05-06T10:20:30+00:00", label |-> "06 kve 2019, 12:20"],
                       d, r) :
                 u \in {"full", "none"},
                 d \in {<<>>, <<[kind |-> "thanks", total |-> "None", has_dd |-> TRUE,
                                 names |-> <<"Bob", "Al">>]>>},
                 r \in BOOLEAN}
ForumPages == [kind : {"forum"}, posts : SeqsUpTo(PostDivs, MaxRecords)]
\* The posts handed to extract_post_content on their own.
PostBodies ==
    {NoBodyPost("full")}
        \cup {BodyPost("full", TRUE, t, TRUE,
                       [attr |-> "2019-05-06T10:20:30Z", label |-> "vcera"], <<>>, FALSE) :
                 t \in TitleTexts}
        \cup {BodyPost("full", FALSE, "", FALSE, [attr |-> "None", label |-> "vcera"],
                       d, FALSE) : d \in DlLists}
        \cup {BodyPost("full", FALSE, "", TRUE, e, <<>>, r) :
                 e \in TimeElems, r \in BOOLEAN}

AuthorKeys == {"username", "user_id", "rank", "post_count", "registration_date",
               "profession", "location", "thanks_given", "thanks_received"}
\* Lines 58-118: the except clause returns what was collected so far.
extract_user_info(post_div) ==
    IF post_div.user = "none" THEN EmptyDict
    ELSE IF post_div.user = "raises" THEN [k \in {"username"} |-> Str("Bob")]
    ELSE [k \in AuthorKeys |-> Str(IF k = "username" THEN "Bob" ELSE "1")]

\* Line 126
PostId(post_div) == [k \in {"post_id"} |-> Str(removeprefix(post_div.post_id, "p"))]
\* Lines 132-137
TitleOf(post_div) ==
    IF post_div.has_title
    THEN [k \in {"title"} |-> Str(removeprefix(clean_text(post_div.title), "Re: "))]
    ELSE EmptyDict
\* Lines 140-144
DatetimeOf(post_div) ==
    IF post_div.has_time
    THEN [k \in {"datetime"} |-> Str(parse_datetime(post_div.time))]
    ELSE EmptyDict
\* Lines 147-149
ContentOf(post_div) ==
    IF post_div.has_content
    THEN [k \in {"content"} |-> Str(clean_text(post_div.content))]
    ELSE EmptyDict
\* Lines 171-174
ThanksDefaults == [k \in {"thanks_users", "thanks_count"} |->
                      IF k = "thanks_users" THEN Str("") ELSE Num(0)]

\* Lines 120-180
extract_post_content(post_div) ==
    IF post_div.raises \/ ~post_div.postbody THEN PostId(post_div)
    ELSE DictUpdate(DictUpdate(DictUpdate(DictUpdate(DictUpdate(
            PostId(post_div), TitleOf(post_div)), DatetimeOf(post_div)),
            ContentOf(post_div)), ThanksDefaults), ThanksOf(post_div.dls))

\* Lines 204-218: one record per post container.
parse_forum_xml(xml_content, forum_id) ==
    [k \in DOMAIN xml_content.posts |->
        DictUpdate(DictUpdate([f \in {"forum_id"} |-> Str(forum_id)],
                              extract_user_info(xml_content.posts[k])),
                   extract_post_content(xml_content.posts[k]))]

\* Lines 232-237
columns == <<"forum_id", "post_id", "title", "username", "user_id", "rank",
             "post_count", "registration_date", "profession", "location",
             "thanks_given", "thanks_received", "datetime", "content",
             "thanks_users", "thanks_count">>

\* Line 229, pd.DataFrame(posts_data): the columns are the keys of all the
\* records, and a record without a key of another record holds NaN there.
DataFrame(posts_data) ==
    LET keys == UNION {DOMAIN posts_data[k] : k \in DOMAIN posts_data}
    IN  [k \in DOMAIN posts_data |->
            [c \in keys |-> IF c \in DOMAIN posts_data[k] THEN posts_data[k][c] ELSE NaN]]
\* Variant: a missing count is written as 0.
MissingColumn_ZeroCount(col) == IF col = "thanks_count" THEN Num(0) ELSE Str("")
\* Lines 240-242: df[col] = ''
MissingColumn(col) == Str("")
\* Line 248, to_excel with na_rep='': NaN is written as an empty cell.
to_excel(cell) == IF cell = NaN THEN Str("") ELSE cell
\* Lines 222-250: the sheet written, its header row and its rows.
create_xlsx_from_posts(posts_data) ==
    IF posts_data = <<>> THEN [kind |-> "nothing"]
    ELSE LET df == DataFrame(posts_data)
         IN  [kind |-> "sheet",
              header |-> columns,
              rows |-> [k \in DOMAIN df |->
                          [c \in DOMAIN columns |->
                              IF columns[c] \in DOMAIN df[k]
                              THEN to_excel(df[k][columns[c]])
                              ELSE MissingColumn(columns[c])]]]

\* Lines 264-275: a page without posts writes no workbook.
process_xml_file(xml_content, forum_id) ==
    LET posts_data == parse_forum_xml(xml_content, forum_id)
    IN  IF posts_data = <<>> THEN [kind |-> "nothing"]
        ELSE create_xlsx_from_posts(posts_data)

\* The em-dash (U+2014), written with one character that stands for it.
EmDash == "~"

\* A saved Helios page: the text of its h3.title when it has one, whether it
\* has the table.pretty, and the cell texts of each tr of that table (the
\* header row first).
VoteTitles == {"Volba predsedy ~ Helios Voting", "Volba"}
VoterNames == {"Bob", " Al "}
VoteTexts == {"", EmDash, " " \o EmDash \o "\n", "&mdash;", "Ano"}
TableRows == {<<>>, <<"Bob">>, <<"Bob", "Ano", "2019">>}
                \cup {<<name, vote_raw>> : name \in VoterNames, vote_raw \in VoteTexts}
VotePages ==
    [kind : {"votes"}, has_title : {FALSE}, title : {""}, has_table : {FALSE}, rows : {<<>>}]
        \cup [kind : {"votes"}, has_title : {FALSE}, title : {""}, has_table : {TRUE},
              rows : SeqsUpTo(TableRows, MaxRecords + 1)]
        \cup [kind : {"votes"}, has_title : {TRUE}, title : VoteTitles, has_table : {TRUE},
              rows : SeqsUpTo(TableRows, MaxRecords + 1)]

\* get_text(strip=True) of an element holding one text
get_text_strip(text) == rstrip(lstrip(text))
\* s.split(sep)[0], sep one character
split_first(s, sep) ==
    IF find(s, sep) = 0 THEN s ELSE SubSeq(s, 1, find(s, sep) - 1)

\* Lines 29-34
VoteTitle(page) ==
    IF page.has_title
    THEN rstrip(lstrip(split_first(get_text_strip(page.title), EmDash)))
    ELSE "Unknown"
\* Variant: the escaped entity counts as a vote.
VoteOf_NoEntity(vote_raw) == IF vote_raw \in {EmDash, ""} THEN 0 ELSE 1
\* Line 52
VoteOf(vote_raw) == IF vote_raw \in {EmDash, "&mdash;", ""} THEN 0 ELSE 1

\* Variant: the first row is read like the others.
DataRows_WithHeader(rows) == rows
\* Line 40: find_all("tr")[1:]
DataRows(rows) == SubSeq(rows, 2, Len(rows))

\* Lines 42-58: the records of the rows after the header row.
RECURSIVE VoteRecords(_, _)
VoteRecords(title, rows) ==
    IF rows = <<>> THEN <<>>
    ELSE LET n == Len(rows)
             cols == rows[n]
             before == VoteRecords(title, SubSeq(rows, 1, n - 1))
         IN  IF Len(cols) < 2 THEN before
             ELSE Append(before, [title |-> title,
                                  name |-> get_text_strip(cols[1]),
                                  vote |-> VoteOf(get_text_strip(cols[2]))])

\* Lines 39-40: soup.find returns None for a page without the table, and
\* None.find_all raises; nothing in the script catches it.
vote_table(page) ==
    IF ~page.has_table THEN Raised("AttributeError")
    ELSE [kind |-> "records",
          records |-> VoteRecords(VoteTitle(page), DataRows(page.rows))]

\* s.split(sep)
RECURSIVE str_split(_, _)
str_split(s, sep) ==
    LET p == find(s, sep)
    IN  IF p = 0 THEN <<s>>
        ELSE <<SubSeq(s, 1, p - 1)>> \o str_split(SubSeq(s, p + Len(sep), Len(s)), sep)

\* urllib.parse.urlparse: the path and the query of scheme://netloc/path?query#fragment
urlparse(url) ==
    LET rest == SubSeq(url, find(url, "://") + 3, Len(url))
        slash == find(rest, "/")
        pathquery == IF slash = 0 THEN "" ELSE str_split(SubSeq(rest, slash, Len(rest)), "#")[1]
        mark == find(pathquery, "?")
    IN  [path |-> IF mark = 0 THEN pathquery ELSE SubSeq(pathquery, 1, mark - 1),
         query |-> IF mark = 0 THEN "" ELSE SubSeq(pathquery, mark + 1, Len(pathquery))]
\* The name=value pairs of a query string, in order; a piece without '=' is
\* no pair.
RECURSIVE query_pairs(_)
query_pairs(pieces) ==
    IF pieces = <<>> THEN <<>>
    ELSE LET eq == find(pieces[1], "=")
             later == query_pairs(Tail(pieces))
         IN  IF eq = 0 THEN later
             ELSE <<QueryPair(SubSeq(pieces[1], 1, eq - 1),
                              SubSeq(pieces[1], eq + 1, Len(pieces[1])))>> \o later

\* The base URLs of links_HELIOS.txt, as text.
VotersList == "https://h/helios/elections/E1/voters/list"
BaseUrls == {VotersList,
             VotersList \o "?limit=50",
             VotersList \o "?page=7",
             VotersList \o "?page=7&limit=50",
             VotersList \o "?page=x",
             VotersList \o "?page=",
             VotersList \o "?per_page=50"}

\* re.sub(r"page=\d+", "page=" + page_num, s)
RECURSIVE re_sub_page_text(_, _)
re_sub_page_text(s, page_num_str) ==
    LET hits == {p \in 1 .. Len(s) - 5 :
                    /\ SubSeq(s, p, p + 4) = "page="
                    /\ IsDigitChar(SubSeq(s, p + 5, p + 5))}
    IN  IF hits = {} THEN s
        ELSE LET match == CHOOSE p \in hits : \A q \in hits : p <= q
                 after == match + 5 + Len(digits_at(SubSeq(s, match + 5, Len(s))))
             IN  SubSeq(s, 1, match - 1) \o "page=" \o page_num_str
                    \o re_sub_page_text(SubSeq(s, after, Len(s)), page_num_str)

\* Lines 235-239 on the text of the URL.
PageUrlText(base_url, n) ==
    IF contains(base_url, "page=")
    THEN re_sub_page_text(base_url, ToString(n))
    ELSE base_url \o (IF contains(base_url, "?") THEN "&" ELSE "?")
                  \o "page=" \o ToString(n)

\* Lines 134-142 on the text of the URL: parts[3] of the path and the first
\* page value of the query, "1" without one; (None, None) when the path is
\* too short.
ElectionInfoOfText(url) ==
    LET parsed_url == urlparse(url)
        parts == str_split(parsed_url.path, "/")
        query == parse_qs(query_pairs(str_split(parsed_url.query, "&")))
    IN  IF Len(parts) < 4 THEN [election_id |-> "None", page |-> "None"]
        ELSE [election_id |-> parts[4],
              page |-> IF "page" \in DOMAIN query THEN query["page"][1] ELSE "1"]

\* Lines 233-243 for one base URL: the URL of every page number and the page
\* recorded for it.
page_urls(base_url) ==
    [kind |-> "pages",
     urls |-> [n \in 1 .. MaxPageNum |-> PageUrlText(base_url, n)],
     pages |-> [n \in 1 .. MaxPageNum |-> ElectionInfoOfText(PageUrlText(base_url, n)).page]]

Calls ==
    {[fn |-> "read_links_from_file", arg |-> f] : f \in RawFiles}
        \cup {[fn |-> "extract_topic_info_from_url", arg |-> u] : u \in ForumUrls}
        \cup {[fn |-> "parse_forum_xml", arg |-> p] : p \in ForumPages}
        \cup {[fn |-> "process_xml_file", arg |-> p] : p \in ForumPages}
        \cup {[fn |-> "extract_post_content", arg |-> p] : p \in PostBodies}
        \cup {[fn |-> "vote_table", arg |-> p] : p \in VotePages}
        \cup {[fn |-> "page_urls", arg |-> [kind |-> "base_url", text |-> u]] : u \in BaseUrls}

call_read_links_from_file ==
    /\ pc = "call"
    /\ call.fn = "read_links_from_file"
    /\ returned' = [kind |-> "urls",
                    urls |-> read_links_from_file(StrippedFile(call.arg)),
                    warned |-> Warnings(StrippedFile(call.arg))]
    /\ pc' = "returned"
    /\ UNCHANGED <<call, parserVars, loginVars, crawlVars, forumVars, heliosVars>>

call_extract_topic_info_from_url ==
    /\ pc = "call"
    /\ call.fn = "extract_topic_info_from_url"
    /\ returned' = extract_topic_info_from_url(call.arg)
    /\ pc' = "returned"
    /\ UNCHANGED <<call, parserVars, loginVars, crawlVars, forumVars, heliosVars>>

call_parse_forum_xml ==
    /\ pc = "call"
    /\ call.fn = "parse_forum_xml"
    /\ returned' = [kind |-> "records", records |-> parse_forum_xml(call.arg, "38314")]
    /\ pc' = "returned"
    /\ UNCHANGED <<call, parserVars, loginVars, crawlVars, forumVars, heliosVars>>

call_process_xml_file ==
    /\ pc = "call"
    /\ call.fn = "process_xml_file"
    /\ returned' = process_xml_file(call.arg, "38314")
    /\ pc' = "returned"
    /\ UNCHANGED <<call, parserVars, loginVars, crawlVars, forumVars, heliosVars>>

call_extract_post_content ==
    /\ pc = "call"
    /\ call.fn = "extract_post_content"
    /\ returned' = [kind |-> "record", record |-> extract_post_content(call.arg)]
    /\ pc' = "returned"
    /\ UNCHANGED <<call, parserVars, loginVars, crawlVars, forumVars, heliosVars>>

call_vote_table ==
    /\ pc = "call"
    /\ call.fn = "vote_table"
    /\ returned' = vote_table(call.arg)
    /\ pc' = "returned"
    /\ UNCHANGED <<call, parserVars, loginVars, crawlVars, forumVars, heliosVars>>

call_page_urls ==
    /\ pc = "call"
    /\ call.fn = "page_urls"
    /\ returned' = page_urls(call.arg.text)
    /\ pc' = "returned"
    /\ UNCHANGED <<call, parserVars, loginVars, crawlVars, forumVars, heliosVars>>

UnitInit ==
    /\ pc = "call"
    /\ call \in Calls
    /\ returned = NoReturn
    /\ parser = ForumXMLParser
    /\ history = <<>>
    /\ lstate = "Unauthenticated"
    /\ loginReqs = <<>>
    /\ lastRequest = NoRequest
    /\ login_form = NoForm
    /\ test_response = NoPage
    /\ main_response = NoPage
    /\ loginResult = "none"
    /\ urls = <<>>
    /\ i = 0
    /\ response = NoResponse
    /\ page_data = None
    /\ scraped_files = <<>>
    /\ successful_scrapes = 0
    /\ skipped_urls = 0
    /\ files = EmptyDir
    /\ summary = NoSummary
    /\ sinceFetch = "none"
    /\ fetchLog = <<>>
    /\ interrupted = FALSE
    /\ parser_pc = "idle"
    /\ parsed = {}
    /\ page_num = 0
    /\ realPages = 0
    /\ warned = 0
    /\ report = NoReport

UnitNext ==
    \/ call_read_links_from_file
    \/ call_extract_topic_info_from_url
    \/ call_parse_forum_xml
    \/ call_process_xml_file
    \/ call_extract_post_content
    \/ call_vote_table
    \/ call_page_urls

SpecUnit == UnitInit /\ [][UnitNext]_vars

-----------------------------------------------------------------------------
(* A ForumXMLParser instance and the extraction calls made on it, one after
   another *)

MaxCalls == 3

\* The pages and context ids the instance is called with.
ParserPages == {[kind |-> "forum", posts |-> <<>>],
                [kind |-> "forum", posts |-> <<NoBodyPost("full")>>],
                [kind |-> "forum",
                 posts |-> <<BodyPost("none", TRUE, "Re: Hello", FALSE,
                                      [attr |-> "None", label |-> "vcera"], <<>>, FALSE),
                             NoBodyPost("raises")>>]}
ForumIds == {"38314", ""}
FileNames == {"topic_38314-0.xml", "topic_None-0.xml", "scraping_summary_2019.xml"}

\* Variant: posts_data is kept on the instance instead of being a new list.
parse_forum_xml_bound_Kept(self, xml_content, forum_id) ==
    LET kept == IF "posts_data" \in DOMAIN self THEN self["posts_data"] ELSE <<>>
        posts_data == kept \o parse_forum_xml(xml_content, forum_id)
    IN  [self |-> DictUpdate(self, [k \in {"posts_data"} |-> posts_data]),
         records |-> posts_data]
\* Lines 193-220 as a method: the instance after the call and the list
\* returned.  Line 196 makes a new list, and no statement assigns to self.
parse_forum_xml_bound(self, xml_content, forum_id) ==
    [self |-> self, records |-> parse_forum_xml(xml_content, forum_id)]

parser_parse_forum_xml ==
    /\ pc = "parser"
    /\ Len(history) < MaxCalls
    /\ \E xml_content \in ParserPages, forum_id \in ForumIds :
          LET out == parse_forum_xml_bound(parser, xml_content, forum_id)
          IN  /\ parser' = out.self
              /\ history' = Append(history, [fn |-> "parse_forum_xml",
                                             xml_content |-> xml_content,
                                             forum_id |-> forum_id,
                                             result |-> out.records])
    /\ UNCHANGED <<pc, unitVars, loginVars, crawlVars, forumVars, heliosVars>>

parser_extract_forum_id_from_filename ==
    /\ pc = "parser"
    /\ Len(history) < MaxCalls
    /\ \E filename \in FileNames :
          history' = Append(history, [fn |-> "extract_forum_id_from_filename",
                                      xml_content |-> [kind |-> "filename", name |-> filename],
                                      forum_id |-> "",
                                      result |-> <<extract_forum_id_from_filename(filename)>>])
    /\ UNCHANGED <<pc, parser, unitVars, loginVars, crawlVars, forumVars, heliosVars>>

ParserInit ==
    /\ pc = "parser"
    /\ parser = ForumXMLParser
    /\ history = <<>>
    /\ call = NoCall
    /\ returned = NoReturn
    /\ lstate = "Unauthenticated"
    /\ loginReqs = <<>>
    /\ lastRequest = NoRequest
    /\ login_form = NoForm
    /\ test_response = NoPage
    /\ main_response = NoPage
    /\ loginResult = "none"
    /\ urls = <<>>
    /\ i = 0
    /\ response = NoResponse
    /\ page_data = None
    /\ scraped_files = <<>>
    /\ successful_scrapes = 0
    /\ skipped_urls = 0
    /\ files = EmptyDir
    /\ summary = NoSummary
    /\ sinceFetch = "none"
    /\ fetchLog = <<>>
    /\ interrupted = FALSE
    /\ parser_pc = "idle"
    /\ parsed = {}
    /\ page_num = 0
    /\ realPages = 0
    /\ warned = 0
    /\ report = NoReport

ParserNext ==
    \/ parser_parse_forum_xml
    \/ parser_extract_forum_id_from_filename

SpecParser == ParserInit /\ [][ParserNext]_vars

-----------------------------------------------------------------------------
(* Claims *)

IsPrefix(s, t) == Len(s) <= Len(t) /\ SubSeq(t, 1, Len(s)) = s

\* C1: a login failure is never fatal to the run: whichever step of login fails,
\* login returns (False) and run() goes on; so the run is never ended by an
\* exception while login has not returned.
C1_LoginFailureNeverFatal == pc = "caught" => loginResult # "none"

\* C2: whenever a crawl controller is about to issue a fetch, a delay has
\* elapsed since its previous fetch (enumerated strategy: also for the first
\* page of the next base URL).
C2_DelayBeforeEveryFetch ==
    (pc = "h_fetch" /\ urls[i].election_id # "None") => sinceFetch # "fetched"

\* C3: enumerated pagination stops at the first non-viable page.  Per base URL
\* the fetched pages are 1, 2, ... without gap or repetition, every fetch but
\* the last brought a roll page, a fetch that did not is the last one of its
\* base URL and moved the controller on; the saved pages are exactly the roll
\* pages fetched, in order (the last one aside while its save is pending or
\* after its save died of an OSError), and nothing else is in the output
\* directory.
FetchesOfBase(b) == SelectSeq(fetchLog, LAMBDA f : f.base = b)
ViableFetches == SelectSeq(fetchLog, LAMBDA f : f.viable)
C3_PaginationStopsAtFirstNonViable ==
    /\ \A b \in 1 .. Len(urls) :
         LET fs == FetchesOfBase(b)
         IN  /\ \A k \in 1 .. Len(fs) : fs[k].page = k
             /\ \A k \in 1 .. Len(fs) - 1 : fs[k].viable
    /\ \A k \in 1 .. Len(fetchLog) - 1 :
         fetchLog[k].base <= fetchLog[k + 1].base
    /\ (fetchLog # <<>> /\ ~fetchLog[Len(fetchLog)].viable)
         => (pc \in {"h_summary", "h_done"} \/ i > fetchLog[Len(fetchLog)].base)
    /\ Len(scraped_files) = Len(ViableFetches) - (IF pc \in {"h_save", "crashed"} THEN 1 ELSE 0)
    /\ \A k \in 1 .. Len(scraped_files) :
         /\ scraped_files[k].page_data.url = ViableFetches[k].url
         /\ scraped_files[k].page_data.content_length >= PaginationThreshold
         /\ scraped_files[k].page_data.status_code = HTTP_OK
    /\ \A n \in DOMAIN files :
         n = HeliosSummaryFileName
           \/ \E k \in 1 .. Len(scraped_files) : scraped_files[k].filepath = n
\* One base URL with pages of lengths 2000, 1800, 1900, 50: 4 fetches, 3 saved.
C3_Witness ==
    /\ pc = "h_done"
    /\ Len(urls) = 1
    /\ Len(fetchLog) = 4
    /\ response = HttpResponse(HTTP_OK, RollBody(50))
    /\ Len(scraped_files) = 3
    /\ scraped_files[1].page_data.content_length = 2000
    /\ scraped_files[2].page_data.content_length = 1800
    /\ scraped_files[3].page_data.content_length = 1900

\* C4: every file the forum parser reads from the crawler's output directory
\* (here: after a run that ended normally) is the saved markup of a page the
\* fetcher returned as usable.
C4_ParserReadsOnlyUsablePages ==
    (pc = "done" /\ parser_pc = "done") =>
        \A f \in parsed :
            \E k \in 1 .. Len(scraped_files) :
                /\ scraped_files[k].filepath = f.file
                /\ f.content = Markup(scraped_files[k].page_data.raw_html)

\* C5: a response whose body contains any marker phrase of the bilingual set
\* (topic-not-found, page-not-found, registration-required) yields no page data.
BilingualMarkers == error_indicators \cup RegisteredMarkers
C5_MarkerPagesAreErrorPages ==
    (pc \in {"save_open", "save_write", "sleep"}
       /\ response.kind = "response"
       /\ response.body.phrases \cap BilingualMarkers # {})
    => page_data = None

\* C6: the login handshake only moves forward.  The requests of login() are a
\* prefix of GET login page, POST, GET protected topic, GET site root, each
\* issued in the handshake state before it (so the POST only with the form
\* loaded, the verification only with the credentials submitted, none twice);
\* without a form the login ends degraded after the first GET alone; and the
\* handshake state never moves backward.
HandshakeOrder ==
    << [req |-> "GET login_url", at |-> "Unauthenticated"],
       [req |-> "POST action_url", at |-> "FormLoaded"],
       [req |-> "GET test_url", at |-> "CredentialsSubmitted"],
       [req |-> "GET index.php", at |-> "CredentialsSubmitted"] >>
HandshakeRank(st) ==
    CASE st = "Unauthenticated" -> 0
      [] st = "FormLoaded" -> 1
      [] st = "CredentialsSubmitted" -> 2
      [] OTHER -> 3
InLogin == pc \in {"login", "login_submit", "login_verify", "login_verify_root", "login_return"}
C6_HandshakeState ==
    /\ IsPrefix(loginReqs, HandshakeOrder)
    /\ (InLogin /\ Len(loginReqs) >= 2) => FormFound(login_form)
    /\ (pc = "login_return" /\ ~FormFound(login_form))
         => (Len(loginReqs) = 1 /\ loginResult = "False" /\ lstate = "Failed")
C6_HandshakeForwardOnly ==
    /\ []C6_HandshakeState
    /\ [][HandshakeRank(lstate') >= HandshakeRank(lstate)
          /\ (HandshakeRank(lstate) = 3 => lstate' = lstate)]_vars
C6_Witness ==
    /\ pc = "login_return"
    /\ loginReqs = HandshakeOrder
    /\ lstate = "Verified"

\* C7: the verification outcome.  With the protected page at hand when login
\* returns: the registration message gives False; otherwise a logout link gives
\* True; the site root is fetched exactly when the page shows neither, and then
\* the result is True iff the root shows a logout link.
Neither(page) == ~HasRegistered(page) /\ ~HasLogout(page)
C7_VerificationOutcome ==
    (pc = "login_return" /\ test_response # NoPage) =>
        /\ HasRegistered(test_response) => loginResult = "False"
        /\ (~HasRegistered(test_response) /\ HasLogout(test_response)) => loginResult = "True"
        /\ (main_response # NoPage) <=> Neither(test_response)
        /\ Neither(test_response) =>
              /\ loginReqs[Len(loginReqs)].req = "GET index.php"
              /\ (loginResult = "True" <=> HasLogout(main_response))
              /\ (loginResult = "False" <=> ~HasLogout(main_response))
        /\ (lstate = "Verified" <=> loginResult = "True")
        /\ (lstate = "Failed" <=> loginResult = "False")
C7_Witness ==
    /\ pc = "login_return"
    /\ test_response # NoPage
    /\ Neither(test_response)
    /\ main_response # NoPage
    /\ ~HasLogout(main_response)
    /\ loginResult = "False"

\* C8: the POSTed payload carries the supplied username and password and, for
\* every named hidden input of the form, that input's name mapped to its value.
C8_PayloadIsCredentialsPlusHidden ==
    (lastRequest.kind = "request" /\ lastRequest.method = "POST" /\ InLogin) =>
        /\ lastRequest.data["username"] = username
        /\ lastRequest.data["password"] = password
        /\ \A k \in 1 .. Len(login_form.hidden) :
              login_form.hidden[k].name # "None" =>
                 /\ login_form.hidden[k].name \in DOMAIN lastRequest.data
                 /\ lastRequest.data[login_form.hidden[k].name] = InputValue(login_form.hidden[k])

\* C9: an exception raised in the crawl loop does not keep the results
\* collected so far from the sink: the run summary listing them is produced.
C9_CollectedResultsReachSink ==
    (pc = "caught" /\ loginResult # "none" /\ scraped_files # <<>>)
    => summary = save_summary_xml(scraped_files)

\* C10: once an interrupt has been delivered the controller is stopped, no
\* fetch is issued any more, and the output directory and the list of saved
\* pages stay as they were when it arrived.
C10_InterruptStopsCrawl ==
    /\ [](interrupted => pc = "interrupted")
    /\ [][(interrupted \/ interrupted')
            => (fetchLog' = fetchLog /\ files' = files /\ scraped_files' = scraped_files)]_vars
\* Interrupted while the second page is being written: the first page is intact.
C10_Witness ==
    /\ interrupted
    /\ Len(scraped_files) = 1
    /\ Len(fetchLog) = 2
    /\ files[scraped_files[1].filepath] = Markup(scraped_files[1].page_data.raw_html)
    /\ \E n \in DOMAIN files : files[n] = Truncated

\* C11: a transport failure of a target fetch does not leave the fetcher.
\* Forum: the step that meets it ends with no page data, the target counted as
\* skipped and nothing saved, and the controller goes on to the delay and then
\* to the next target (or to the summary after the last one).  Helios: the
\* step ends with no page data, nothing saved, and the controller at page 1 of
\* the next base URL (or at the summary after the last one).
C11_TransportFailureSkipsTarget ==
    /\ [][(pc = "scrape" /\ response' = RequestException /\ ~interrupted')
            => /\ page_data' = None
               /\ pc' = "sleep"
               /\ skipped_urls' = skipped_urls + 1
               /\ UNCHANGED <<successful_scrapes, scraped_files, files, i>>]_vars
    /\ [][(pc = "sleep" /\ response = RequestException /\ ~interrupted')
            => IF i < Len(urls)
               THEN pc' = "scrape" /\ i' = i + 1
               ELSE pc' = "summary"]_vars
    /\ [][(pc = "h_fetch" /\ response' = RequestException)
            => /\ page_data' = None
               /\ UNCHANGED <<scraped_files, files>>
               /\ IF i < Len(urls)
                  THEN pc' = "h_fetch" /\ i' = i + 1 /\ page_num' = 1
                  ELSE pc' = "h_summary"]_vars
\* The first target met a transport failure; the controller is at the second.
C11_Witness ==
    /\ pc = "scrape"
    /\ i = 2
    /\ response = RequestException
    /\ skipped_urls = 1
    /\ fetchLog = <<1>>

\* C12: a fetch result carries raw markup if and only if the response is
\* usable.  A result with markup comes from an answered request whose body
\* reaches the minimum viability threshold and shows no marker phrase of the
\* bilingual set, and carries that body and its HTTP status; and an answer with
\* status 200, a body of that length after trimming and no marker phrase gives
\* a result with markup.
C12_MarkupIffUsable ==
    /\ page_data # None =>
          /\ response.kind = "response"
          /\ response.body.len >= MinPageLength
          /\ response.body.phrases \cap BilingualMarkers = {}
          /\ page_data.raw_html = response.body
          /\ page_data.status_code = response.status_code
    /\ (/\ response.kind = "response"
        /\ response.status_code = HTTP_OK
        /\ response.body.stripped >= MinPageLength
        /\ response.body.phrases \cap BilingualMarkers = {})
       => page_data # None

\* C13: the explicit-list strategy.  The targets fetched so far are targets
\* 1, 2, ... of the list of valid lines, each once and in that order, the
\* request of a fetch is for the line itself, and a run that reaches the end of
\* the loop has fetched every valid line exactly once, whatever the earlier
\* targets gave.
C13_OneFetchPerValidLine ==
    /\ \A k \in 1 .. Len(fetchLog) : fetchLog[k] = k
    /\ Len(fetchLog) <= Len(urls)
    /\ pc = "scrape" => Len(fetchLog) = i - 1
    /\ pc \in {"save_open", "save_write", "sleep"} =>
          /\ Len(fetchLog) = i
          /\ lastRequest = [kind |-> "request", method |-> "GET", target |-> urls[i]]
    /\ pc \in {"summary", "done"} => Len(fetchLog) = Len(urls)
\* A file of one valid URL and one line without the path substring: the run
\* has ended with one warning and one fetch.
C13_Witness ==
    /\ pc = "done"
    /\ Len(urls) = 1
    /\ warned = 1
    /\ fetchLog = <<1>>
    /\ successful_scrapes = 1

\* C14: ordering of the enumerated strategy.  The base URLs are taken in input
\* order; within one base URL the k-th fetch asks for page k (where the URL
\* fetched names a page number at all), no URL is fetched twice, and no fetch
\* follows one that brought no roll page.
C14_PagesAscendingNoRepeat ==
    /\ \A k \in 1 .. Len(fetchLog) - 1 : fetchLog[k].base <= fetchLog[k + 1].base
    /\ \A b \in 1 .. Len(urls) :
         LET fs == FetchesOfBase(b)
         IN  /\ \A k \in 1 .. Len(fs) :
                   IsDigits(fs[k].url.page) => fs[k].url.page = ToString(k)
             /\ \A j, k \in 1 .. Len(fs) : j < k => fs[j].url # fs[k].url
             /\ \A k \in 1 .. Len(fs) - 1 : fs[k].viable

\* C15: every run terminates.  The number of steps a run may still take is a
\* natural number that every step makes smaller, so no run goes on for ever
\* (every request, delay and file operation being taken to return or raise),
\* and it is 0 only when the run has ended.  The forum controller has then
\* fetched exactly as many times as there are valid URLs (a run that an
\* exception or an interrupt ended: at most as many), and the enumerated
\* controller never fetches more than 25 times for one base URL.
ForumEnded == pc \in {"done", "caught", "interrupted"}
HeliosEnded == pc \in {"h_done", "crashed"}
InHeliosRun == pc \in {"h_start", "h_fetch", "h_save", "h_summary", "h_done", "crashed"}
C15_FetchesBounded ==
    IF InHeliosRun
    THEN \A b \in 1 .. Len(urls) : Len(FetchesOfBase(b)) <= MaxPageNum
    ELSE /\ Len(fetchLog) <= Len(urls)
         /\ pc = "done" => Len(fetchLog) = Len(urls)
LoginStepsLeft ==
    CASE pc = "login" -> 5
      [] pc = "login_submit" -> 4
      [] pc = "login_verify" -> 3
      [] pc = "login_verify_root" -> 2
      [] pc = "login_return" -> 1
      [] OTHER -> 0
TargetStepsLeft ==
    CASE pc = "scrape" -> 4
      [] pc = "save_open" -> 3
      [] pc = "save_write" -> 2
      [] pc = "sleep" -> 1
      [] OTHER -> 0
ForumStepsLeft ==
    (IF parser_pc = "idle" THEN 1 ELSE 0)
    + (CASE ForumEnded -> 0
         [] pc = "summary" -> 1
         [] TargetStepsLeft > 0 -> 1 + 4 * (Len(urls) - i) + TargetStepsLeft
         [] OTHER -> 2 + 4 * MaxLines + LoginStepsLeft)
PageStepsLeft == 2 * MaxPageNum + 1
HeliosStepsLeft ==
    CASE HeliosEnded -> 0
      [] pc = "h_summary" -> 1
      [] pc = "h_fetch" -> 1 + PageStepsLeft * (Len(urls) - i) + 2 * (MaxPageNum - page_num) + 2
      [] pc = "h_save" -> 1 + PageStepsLeft * (Len(urls) - i) + 2 * (MaxPageNum - page_num) + 1
      [] OTHER -> 2 + PageStepsLeft * MaxLines
StepsLeft == IF InHeliosRun THEN HeliosStepsLeft ELSE ForumStepsLeft
C15_EveryRunTerminates ==
    /\ [](StepsLeft \in Nat)
    /\ [](StepsLeft = 0 => (ForumEnded \/ HeliosEnded))
    /\ [][StepsLeft' < StepsLeft]_vars
    /\ []C15_FetchesBounded
\* Every page of a base URL was a roll page: 25 fetches, 25 pages saved, the end.
C15_Witness ==
    /\ pc = "h_done"
    /\ Len(urls) = 1
    /\ Len(fetchLog) = MaxPageNum
    /\ Len(scraped_files) = MaxPageNum
    /\ \A k \in 1 .. MaxPageNum : fetchLog[k].viable

\* C16: at the end of a complete run of the forum crawler the run summary
\* holds one entry per usable fetch, in fetch order.  There are as many entries
\* as fetches that gave page data, total_pages is their number, the k-th entry
\* is for the k-th such fetch and carries the length of its body, the entries
\* follow the order of the targets, and every entry is for a usable answer:
\* status 200, a body reaching the minimum length and no marker phrase of the
\* bilingual set.  With no such fetch no summary is written.
IsUsableBody(body) ==
    /\ body.stripped >= MinPageLength
    /\ body.phrases \cap BilingualMarkers = {}
C16_SummaryListsUsableFetches ==
    pc = "done" =>
        IF scraped_files = <<>>
        THEN summary = NoSummary /\ successful_scrapes = 0
        ELSE /\ summary.kind = "summary"
             /\ files[SummaryFileName] = summary
             /\ summary.total_pages = Len(summary.pages)
             /\ Len(summary.pages) = Len(fetchLog) - skipped_urls
             /\ Len(summary.pages) = Len(scraped_files)
             /\ \A k \in 1 .. Len(summary.pages) :
                   /\ summary.pages[k].url = scraped_files[k].page_data.url
                   /\ summary.pages[k].content_length = scraped_files[k].page_data.raw_html.len
                   /\ summary.pages[k].status_code = HTTP_OK
                   /\ IsUsableBody(scraped_files[k].page_data.raw_html)
             /\ \E pos \in [1 .. Len(scraped_files) -> 1 .. Len(urls)] :
                   /\ \A k \in 1 .. Len(scraped_files) : urls[pos[k]] = scraped_files[k].page_data.url
                   /\ \A j, k \in 1 .. Len(scraped_files) : j < k => pos[j] < pos[k]

\* C17: partial success is reported through the two counts.  Once target i is
\* processed successful_scrapes + skipped_urls = i (i - 1 while it is being
\* processed), after the loop the sum is the number of valid URLs, and a run
\* that reached its end with a target saved, whatever was skipped, has
\* reported completion with exactly these counts.
C17_CountsAddUp ==
    /\ pc \in {"scrape", "save_open", "save_write"} => successful_scrapes + skipped_urls = i - 1
    /\ pc = "sleep" => successful_scrapes + skipped_urls = i
    /\ pc \in {"summary", "done"} => successful_scrapes + skipped_urls = Len(urls)
    /\ (pc = "done" /\ successful_scrapes > 0) =>
          report = [kind |-> "completed", successful |-> successful_scrapes,
                    skipped |-> skipped_urls]
    /\ pc # "done" => report = NoReport
\* One target saved, one skipped: the run ended reporting 1 and 1.
C17_Witness ==
    /\ pc = "done"
    /\ Len(urls) = 2
    /\ report = [kind |-> "completed", successful |-> 1, skipped |-> 1]

\* C18: read_links_from_file returns exactly the trimmed lines of the file, in
\* file order, that are non-blank, are no '#' comment and contain both the
\* host and the path substring; every other non-blank non-comment line is
\* reported (one warning each) and skipped, and the lines after it are still
\* read.  A missing file gives the empty list.
C18_Accepted(rawfile) ==
    {k \in DOMAIN rawfile.lines :
        /\ rawfile.exists
        /\ rawfile.lines[k].text.kind = "text"
        /\ rawfile.lines[k].text.host
        /\ rawfile.lines[k].text.viewtopic}
C18_Reported(rawfile) ==
    {k \in DOMAIN rawfile.lines :
        /\ rawfile.exists
        /\ rawfile.lines[k].text.kind = "text"
        /\ ~(rawfile.lines[k].text.host /\ rawfile.lines[k].text.viewtopic)}
C18_ReaderKeepsValidLines ==
    (pc = "returned" /\ call.fn = "read_links_from_file") =>
        /\ returned.kind = "urls"
        /\ Len(returned.urls) = Cardinality(C18_Accepted(call.arg))
        /\ \A k \in C18_Accepted(call.arg) :
              returned.urls[Cardinality({j \in C18_Accepted(call.arg) : j <= k})]
                 = call.arg.lines[k].text
        /\ returned.warned = Cardinality(C18_Reported(call.arg))
\* An indented line that names the host but not the path, then a valid line:
\* the first is reported, the second is returned.
C18_Witness ==
    /\ pc = "returned"
    /\ call.fn = "read_links_from_file"
    /\ Len(call.arg.lines) = 2
    /\ call.arg.lines[1].pad
    /\ call.arg.lines[1].text.kind = "text"
    /\ call.arg.lines[1].text.host /\ ~call.arg.lines[1].text.viewtopic
    /\ returned.urls = <<call.arg.lines[2].text>>
    /\ returned.warned = 1

\* The positions of the query string that hold parameter name, and the
\* earliest position of a non-empty set of positions.
C19_Positions(query, name) == {k \in DOMAIN query : query[k].key = name}
C19_NonBlank(query, name) == {k \in C19_Positions(query, name) : query[k].value # ""}
C19_First(S) == CHOOSE k \in S : \A j \in S : k <= j

C20_ExtractableRows(page) ==
    {k \in DOMAIN page.rows : k > 1 /\ Len(page.rows[k]) >= 2}

\* C20: under both rule sets the extraction of a page never fails.  A
\* malformed record does not abort the page (every post container gives its
\* record whatever the extractors met in its neighbours; every table row with
\* two cells gives its record whatever the other rows hold), and a page with
\* no post container, or with no voter table, gives the empty sequence.
C20_ForumExtractionNeverFails ==
    (pc = "returned" /\ call.fn = "parse_forum_xml") =>
        /\ returned.kind = "records"
        /\ Len(returned.records) = Len(call.arg.posts)
        /\ \A k \in DOMAIN call.arg.posts : returned.records[k]["forum_id"] = Str("38314")
C20_VoteExtractionNeverFails ==
    (pc = "returned" /\ call.fn = "vote_table") =>
        /\ returned.kind = "records"
        /\ Len(returned.records) = Cardinality(C20_ExtractableRows(call.arg))
        /\ ~call.arg.has_table => returned.records = <<>>
C20_ExtractionNeverFails ==
    /\ C20_ForumExtractionNeverFails
    /\ C20_VoteExtractionNeverFails

\* The fixed schema of a PostRecord, in column order.
C21_Schema == <<"forum_id", "post_id", "title", "username", "user_id", "rank",
                "post_count", "registration_date", "profession", "location",
                "thanks_given", "thanks_received", "datetime", "content",
                "thanks_users", "thanks_count">>
\* The text fields of row k of the written sheet are all text, and those the
\* post's markup does not give are the empty string.
C21_TextFieldsComplete(k) ==
    \A c \in 1 .. 15 :
        /\ DOMAIN returned.rows[k][c] = {"str"}
        /\ (call.arg.posts[k].user = "none" /\ C21_Schema[c] \in AuthorKeys) =>
              returned.rows[k][c] = Str("")
        /\ (~call.arg.posts[k].postbody
               /\ C21_Schema[c] \in {"title", "datetime", "content", "thanks_users"}) =>
              returned.rows[k][c] = Str("")
\* The count of row k is a number, 0 for a post without a list of thanks.
C21_CountComplete(k) ==
    /\ DOMAIN returned.rows[k][16] = {"int"}
    /\ (~call.arg.posts[k].postbody \/ call.arg.posts[k].dls = <<>>) =>
          returned.rows[k][16] = Num(0)

\* C21: every record written for a page has the 16 fields of the schema in
\* the fixed order, each field the markup does not give being the empty
\* string and thanks_count being 0, whatever the markup: a post without any
\* author field, a post without a post-body block, a page mixing both.
C21_SchemaComplete ==
    (pc = "returned" /\ call.fn = "process_xml_file" /\ returned.kind = "sheet") =>
        /\ returned.header = C21_Schema
        /\ Len(returned.rows) = Len(call.arg.posts)
        /\ \A k \in DOMAIN returned.rows :
              /\ DOMAIN returned.rows[k] = 1 .. 16
              /\ C21_TextFieldsComplete(k)
              /\ C21_CountComplete(k)

\* The extractable rows of the page in row order: the one record j is read from.
C22_RowOf(page, j) ==
    CHOOSE k \in C20_ExtractableRows(page) :
        Cardinality({m \in C20_ExtractableRows(page) : m <= k}) = j

\* C22 as stated: the vote of a record is 0 if and only if the text of the
\* row's second cell is an em-dash or empty; every other text gives 1.
C22_VoteZeroIffDashOrEmpty ==
    (pc = "returned" /\ call.fn = "vote_table" /\ returned.kind = "records") =>
        \A j \in DOMAIN returned.records :
            /\ returned.records[j].vote \in {0, 1}
            /\ returned.records[j].vote = 0 <=>
                  get_text_strip(call.arg.rows[C22_RowOf(call.arg, j)][2]) \in {EmDash, ""}

\* C22 amended: the vote is 0 if and only if the text of the second cell is
\* an em-dash, the literal text "&mdash;" (an escaped entity), or empty.
C22_VoteZeroIffDashEntityOrEmpty ==
    (pc = "returned" /\ call.fn = "vote_table" /\ returned.kind = "records") =>
        \A j \in DOMAIN returned.records :
            /\ returned.records[j].vote \in {0, 1}
            /\ returned.records[j].vote = 0 <=>
                  get_text_strip(call.arg.rows[C22_RowOf(call.arg, j)][2])
                     \in {EmDash, "&mdash;", ""}
\* A header row, a row "Ano", a row with a padded em-dash: votes 1 and 0.
C22_Witness ==
    /\ pc = "returned"
    /\ call.fn = "vote_table"
    /\ call.arg.rows = <<<<>>, <<"Bob", "Ano">>, <<" Al ", " " \o EmDash \o "\n">>>>
    /\ returned.kind = "records"
    /\ Len(returned.records) = 2
    /\ returned.records[1].vote = 1
    /\ returned.records[2].vote = 0

\* C23: for a page with the voter table, the records are exactly the rows
\* after the header row that have at least two cells, in row order; each
\* holds the page title and the text of the row's first cell as the name.
\* Rows with fewer cells give no record and leave the others as they are.
C23_OneRecordPerVoterRow ==
    (pc = "returned" /\ call.fn = "vote_table" /\ call.arg.has_table) =>
        /\ returned.kind = "records"
        /\ Len(returned.records) = Cardinality(C20_ExtractableRows(call.arg))
        /\ \A j \in DOMAIN returned.records :
              /\ returned.records[j].name
                    = get_text_strip(call.arg.rows[C22_RowOf(call.arg, j)][1])
              /\ returned.records[j].title
                    = (IF ~call.arg.has_title THEN "Unknown"
                       ELSE IF call.arg.title = "Volba" THEN "Volba"
                       ELSE "Volba predsedy")
\* A header row of two cells, a row of one cell, then a voter row: one record.
C23_Witness ==
    /\ pc = "returned"
    /\ call.fn = "vote_table"
    /\ call.arg.title = "Volba predsedy ~ Helios Voting"
    /\ call.arg.rows = <<<<"Bob", "Ano">>, <<"Bob">>, <<" Al ", "Ano">>>>
    /\ returned.kind = "records"
    /\ returned.records = <<[title |-> "Volba predsedy", name |-> "Al", vote |-> 1]>>

\* C24: the datetime of a post with a <time> element.  An attribute that
\* parses as ISO-8601 gives that instant as YYYY-MM-DD HH:MM:SS; an attribute
\* that is absent or does not parse gives the date and time matched in the
\* visible label; the raw string is kept only when neither rule applies; and
\* the record always has its datetime.
C24_TimestampNormalized ==
    (pc = "returned" /\ call.fn = "extract_post_content"
        /\ call.arg.has_time /\ ~call.arg.raises) =>
        LET elem == call.arg.time
            labelled == elem.label = "06 kve 2019, 12:20"
        IN  /\ "datetime" \in DOMAIN returned.record
            /\ returned.record["datetime"] =
                  Str(IF elem.attr \in {"2019-05-06T10:20:30+00:00", "2019-05-06T10:20:30Z"}
                      THEN "2019-05-06 10:20:30"
                      ELSE IF labelled THEN "06 kve 2019 12:20"
                      ELSE str_time(elem))

\* The lists of thanks among the <dl> elements of the post body.
C25_ThanksLines(post_div) ==
    {k \in DOMAIN post_div.dls : post_div.postbody /\ post_div.dls[k].kind = "thanks"}
C25_Listed(names) ==
    IF names = <<>> THEN ""
    ELSE IF names = <<"Bob">> THEN "Bob"
    ELSE "Bob, Al"

\* C25: for a post with a list of thanks, thanks_count is the "celkem N" count
\* when the list states one and the number of listed names otherwise, and
\* thanks_users is the listed names in document order; for a post without
\* such a list thanks_users is "" and thanks_count is 0.
C25_ThanksCountAndUsers ==
    (pc = "returned" /\ call.fn = "extract_post_content" /\ ~call.arg.raises) =>
        /\ {"thanks_users", "thanks_count"} \subseteq DOMAIN returned.record
        /\ IF C25_ThanksLines(call.arg) = {}
           THEN /\ returned.record["thanks_users"] = Str("")
                /\ returned.record["thanks_count"] = Num(0)
           ELSE LET d == call.arg.dls[CHOOSE k \in C25_ThanksLines(call.arg) : TRUE]
                IN  /\ returned.record["thanks_users"] = Str(C25_Listed(d.names))
                    /\ returned.record["thanks_count"] =
                          Num(IF d.total = "3" THEN 3 ELSE Len(d.names))

\* C26: the title of a record is the cleaned link text with the literal "Re: "
\* removed once, and only where the text starts with it: "Re: Hello" gives
\* "Hello", "Re: Re: X" gives "Re: X", and a text that does not start with
\* "Re: " is unchanged, also when "Re: " stands further in.
C26_RePrefixStrippedOnce ==
    (pc = "returned" /\ call.fn = "extract_post_content"
        /\ call.arg.has_title /\ ~call.arg.raises) =>
        LET raw_title == clean_text(call.arg.title)
            title == returned.record["title"].str
        IN  /\ "title" \in DOMAIN returned.record
            /\ IF Len(raw_title) >= 4 /\ SubSeq(raw_title, 1, 4) = "Re: "
               THEN "Re: " \o title = raw_title
               ELSE title = raw_title
            /\ call.arg.title = "Re: Hello" => title = "Hello"
            /\ call.arg.title = "Re: Re: X" => title = "Re: X"
            /\ call.arg.title = "Hello Re: X" => title = "Hello Re: X"
\* "Re: Re: X" came out as "Re: X".
C26_Witness ==
    /\ pc = "returned"
    /\ call.fn = "extract_post_content"
    /\ call.arg.has_title
    /\ call.arg.title = "Re: Re: X"
    /\ "title" \in DOMAIN returned.record
    /\ returned.record["title"] = Str("Re: X")

C28_Expected(base_url, n) ==
    CASE base_url = VotersList -> VotersList \o "?page=" \o ToString(n)
      [] base_url = VotersList \o "?limit=50" ->
            VotersList \o "?limit=50&page=" \o ToString(n)
      [] base_url = VotersList \o "?per_page=50" ->
            VotersList \o "?per_page=50&page=" \o ToString(n)
      [] base_url = VotersList \o "?page=7&limit=50" ->
            VotersList \o "?page=" \o ToString(n) \o "&limit=50"
      [] OTHER -> VotersList \o "?page=" \o ToString(n)

\* C28: for every base URL and every page number n of 1..25 the URL fetched
\* is the base URL carrying page=n, so the 25 URLs of a base URL differ from
\* one another and the page recorded for URL n is n.
C28_PageUrlCarriesPageNumber ==
    (pc = "returned" /\ call.fn = "page_urls") =>
        /\ \A n \in 1 .. MaxPageNum :
              /\ returned.urls[n] = C28_Expected(call.arg.text, n)
              /\ returned.pages[n] = ToString(n)
        /\ \A n, m \in 1 .. MaxPageNum : n # m => returned.urls[n] # returned.urls[m]

\* C29: no saved page is overwritten within a run of the forum crawler.  The
\* entries collected for the summary name pairwise distinct files, and once
\* the loop has ended the file of every entry holds the markup fetched for
\* that entry.
C29_NoSavedPageOverwritten ==
    /\ \A j, k \in DOMAIN scraped_files :
          j # k => scraped_files[j].filepath # scraped_files[k].filepath
    /\ pc \in {"summary", "done"} =>
          \A k \in DOMAIN scraped_files :
              /\ scraped_files[k].filepath \in DOMAIN files
              /\ files[scraped_files[k].filepath] = Markup(scraped_files[k].page_data.raw_html)

\* C30: every page saved and collected for the summary was answered with
\* status 200 and reaches the threshold of its program: for the forum a
\* stripped body of at least 100 characters showing none of the error
\* indicators, for the election rolls a content length of at least 500.  The
\* answer being saved has status 200, every page file holds such a body, and
\* every entry of the forum's summary has status 200.
C30_Threshold(body) ==
    IF InHeliosRun THEN body.len >= 500
    ELSE /\ body.stripped >= 100
         /\ body.phrases \cap {"this topic does not exist", "toto tema neexistuje",
                                "topic not found", "tema nenalezeno",
                                "page not found", "stranka nenalezena"} = {}
C31_AcceptedTargetsHaveIdentifier ==
    /\ \A k \in DOMAIN urls :
          extract_topic_info_from_url(urls[k]).topic_id # "None"
    /\ pc \in {"save_open", "save_write"} => page_data.id # "None"
    /\ \A k \in DOMAIN scraped_files : scraped_files[k].page_data.id # "None"
    /\ summary # NoSummary =>
          \A k \in DOMAIN summary.pages : summary.pages[k].id # "None"

\* C32: identifier round trip between crawler and extractor.  For every page
\* the forum crawler saved, the file is named topic_<id>-<start>.xml and the
\* forum id extract_forum_id_from_filename recovers from that name equals the
\* topic identifier of the crawl target; once the parser has run on the
\* output directory, the forum id it used for the file is that identifier,
\* and every record parse_forum_xml builds with it carries it as forum_id.
C32_TargetId(entry) == extract_topic_info_from_url(entry.page_data.url).topic_id
C32_ForumIdRoundTrip ==
    /\ \A k \in DOMAIN scraped_files :
          /\ scraped_files[k].filepath =
                "topic_" \o C32_TargetId(scraped_files[k]) \o "-"
                         \o scraped_files[k].page_data.start \o ".xml"
          /\ extract_forum_id_from_filename(scraped_files[k].filepath)
                = C32_TargetId(scraped_files[k])
    /\ parser_pc = "done" =>
          \A f \in parsed : \A k \in DOMAIN scraped_files :
              scraped_files[k].filepath = f.file =>
                  /\ f.forum_id = C32_TargetId(scraped_files[k])
                  /\ \A xml_content \in ParserPages :
                        LET records == parse_forum_xml(xml_content, f.forum_id)
                        IN  \A j \in DOMAIN records :
                                records[j].forum_id = Str(C32_TargetId(scraped_files[k]))

====
